---------------------------- MODULE Spec2Model ----------------------------
(***************************************************************************)
(* The Hybrid Messaging Bridge of lora-llm-client.                         *)
(*                                                                         *)
(*   Inbound Link   MeshtasticMqttClient    (meshtastic_mqtt_client.py)    *)
(*   Outbound Link  MeshtasticTcpClient     (meshtastic_tcp_client.py)     *)
(*   Router/Bridge  MeshtasticHybridClient  (meshtastic_hybrid_client.py)  *)
(*                                                                         *)
(* Python strings are sequences of code points (one-element strings).      *)
(* Python values are records [t, s, n]: t the type, s the string value,    *)
(* n the integer value.  Every thread of the program owns a call stack of  *)
(* frames; one action is one step of the frame on top of a stack.  What    *)
(* the broker, the device session and the Responder do is chosen by \E.    *)
(***************************************************************************)
EXTENDS Integers, Sequences, FiniteSets, TLC

(***************************************************************************)
(* Strings                                                                 *)
(***************************************************************************)
S_empty == << >>
S_broadcast == <<"b", "r", "o", "a", "d", "c", "a", "s", "t">>
S_unknown == <<"u", "n", "k", "n", "o", "w", "n">>
S_llm_agent == <<"l", "l", "m", "_", "a", "g", "e", "n", "t">>
S_text == <<"t", "e", "x", "t">>
S_sendtext == <<"s", "e", "n", "d", "t", "e", "x", "t">>
S_None == <<"N", "o", "n", "e">>
S_abc == <<"!", "a", "b", "c">>
S_hi == <<"h", "i">>
S_yo == <<"y", "o">>
S_hello == <<"h", "e", "l", "l", "o">>
S_llmres == <<"l", "l", "m", "r", "e", "s">>
S_jsondict == <<"{", "...", "}">>

rx_topic_prefix == <<"m", "s", "h", "/", "+", "/", "r", "x">>
nodeinfo_topic_prefix == <<"m", "s", "h", "/", "+", "/", "n", "o", "d", "e", "i", "n", "f", "o">>
StartupEchoMarker == <<"U+1F4E2", " ", "L", "L", "M", " ", "A", "g", "e", "n", "t", " ", "i", "s", " ", "n", "o", "w", " ", "o", "n", "l", "i", "n", "e">>
LLM_CHANNEL == <<"m", "s", "h", "/", "U", "S", "/", "2", "/", "j", "s", "o", "n", "/", "l", "l", "m", "/">>
LLM_RESPONSE_CHANNEL == <<"m", "s", "h", "/", "U", "S", "/", "2", "/", "j", "s", "o", "n", "/", "l", "l", "m", "r", "e", "s", "/">>
T_llm_user == <<"m", "s", "h", "/", "U", "S", "/", "2", "/", "j", "s", "o", "n", "/", "l", "l", "m", "/", "!", "a", "b", "c">>
T_rx_node == <<"m", "s", "h", "/", "!", "a", "b", "c", "/", "r", "x">>
T_other == <<"m", "s", "h", "/", "x">>

StartsWith(s, p) == Len(p) <= Len(s) /\ SubSeq(s, 1, Len(p)) = p

RECURSIVE RStrip(_, _)
RStrip(s, c) ==
    IF s # << >> /\ s[Len(s)] = c THEN RStrip(SubSeq(s, 1, Len(s) - 1), c) ELSE s

RECURSIVE Split(_, _)
Split(s, c) ==
    IF \E i \in 1..Len(s) : s[i] = c
    THEN LET i == CHOOSE j \in 1..Len(s) : s[j] = c /\ \A k \in 1..(j - 1) : s[k] # c
         IN  <<SubSeq(s, 1, i - 1)>> \o Split(SubSeq(s, i + 1, Len(s)), c)
    ELSE <<s>>

\* sep.join(parts)
RECURSIVE Join(_, _)
Join(parts, sep) ==
    IF parts = << >> THEN << >>
    ELSE IF Len(parts) = 1 THEN parts[1]
    ELSE parts[1] \o sep \o Join(Tail(parts), sep)

NonEmptyParts(parts) == SelectSeq(parts, LAMBDA p : p # << >>)

DigitChar(d) == <<"0", "1", "2", "3", "4", "5", "6", "7", "8", "9">>[d + 1]

RECURSIVE Digits(_)
Digits(n) == IF n < 10 THEN <<DigitChar(n)>> ELSE Digits(n \div 10) \o <<DigitChar(n % 10)>>

(***************************************************************************)
(* Python values                                                           *)
(***************************************************************************)
Absent == [t |-> "absent", s |-> << >>, n |-> 0]
PyNone == [t |-> "none", s |-> << >>, n |-> 0]
PyStr(s) == [t |-> "str", s |-> s, n |-> 0]
PyInt(n) == [t |-> "int", s |-> << >>, n |-> n]
PyDict == [t |-> "dict", s |-> << >>, n |-> 0]
PyTrue == [t |-> "bool", s |-> << >>, n |-> 1]

Truthy(v) ==
    CASE v.t = "str" -> v.s # << >>
      [] v.t = "int" -> v.n # 0
      [] v.t = "dict" -> TRUE
      [] OTHER -> FALSE

PyOr(a, b) == IF Truthy(a) THEN a ELSE b

\* str(v)
StrOf(v) ==
    CASE v.t = "str" -> v
      [] v.t = "int" -> PyStr(Digits(v.n))
      [] v.t = "dict" -> PyStr(S_jsondict)
      [] OTHER -> PyStr(S_None)

\* v[:50] raises TypeError unless v is a sequence
Sliceable(v) == v.t = "str"

\* dict.get(key, default); a missing key reads as None when no default is given
Get(d, k, default) == IF d[k].t = "absent" THEN default ELSE d[k]
GetN(d, k) == IF d[k].t = "absent" THEN PyNone ELSE d[k]
Has(d, k) == d[k].t # "absent"

DataKeys ==
    {"type", "payload", "p_text", "p_from_id", "p_to_id", "sender", "from", "to",
     "text", "from_id", "to_id", "message", "content", "body", "user", "userId",
     "id", "fromId", "toId", "channel", "num", "longName", "p_is_response"}

EmptyData == [k \in DataKeys |-> Absent]

\* the payload of a broker message: kind "raw" is not JSON, "dict" a JSON object
\* (d its members, a member of the nested payload object under p_<key>), "nondict"
\* any other JSON value, "undecodable" bytes that are not UTF-8
RawPayload(s) == [kind |-> "raw", raw |-> s, d |-> EmptyData]
DictPayload(d) == [kind |-> "dict", raw |-> S_jsondict, d |-> d]
NonDictPayload == [kind |-> "nondict", raw |-> <<"4", "2">>, d |-> EmptyData]
UndecodablePayload == [kind |-> "undecodable", raw |-> << >>, d |-> EmptyData]
NoPayload == [kind |-> "none", raw |-> << >>, d |-> EmptyData]


(***************************************************************************)
(* Message classification: MeshtasticMqttClient._on_message                *)
(***************************************************************************)
Message(text, from_id, to_id, is_direct, is_llm_channel) ==
    [text |-> text, from_id |-> from_id, to_id |-> to_id,
     is_direct |-> is_direct, is_llm_channel |-> is_llm_channel]

NoMessage == Message(Absent, Absent, Absent, FALSE, FALSE)

\* lines 184-193: the topic starts with the dedicated-channel prefix
IsLlmTopic(c, topic) ==
    /\ c.use_llm_channel
    /\ Truthy(c.llm_channel)
    /\ \/ StartsWith(topic, RStrip(c.llm_channel.s, "/"))
       \/ StartsWith(topic, c.llm_channel.s)

\* line 293 alone: the sender of a payload that is not JSON
TopicSenderUnknown(topic) == PyStr(S_unknown)

\* lines 276-286, 295-302: the sender read from the last segment of the topic
TopicSender(topic) ==
    LET parts == Split(topic, "/")
        last_part == parts[Len(parts)]
    IN  IF StartsWith(last_part, <<"!">>) THEN PyStr(last_part) ELSE PyStr(S_unknown)

Fields(shape, text, from_id, to_id) ==
    [shape |-> shape, text |-> text, from_id |-> from_id, to_id |-> to_id]

\* the f-string text[:50] of each branch raises on a text that is no sequence
Checked(f) == IF Sliceable(f.text) THEN f ELSE [f EXCEPT !.shape = "error"]

\* lines 261-288 (case 5)
HeuristicText(d, raw) ==
    LET found == IF d.message.t = "str" THEN d.message
                 ELSE IF d.content.t = "str" THEN d.content
                 ELSE IF d.body.t = "str" THEN d.body
                 ELSE PyNone
    IN  IF Truthy(found) THEN found ELSE PyStr(raw)

HeuristicSender(d, topic) ==
    LET found == IF Has(d, "from") THEN StrOf(d.from)
                 ELSE IF Has(d, "from_id") THEN StrOf(d.from_id)
                 ELSE IF Has(d, "sender") THEN StrOf(d.sender)
                 ELSE IF Has(d, "user") THEN StrOf(d.user)
                 ELSE IF Has(d, "userId") THEN StrOf(d.userId)
                 ELSE PyNone
    IN  IF Truthy(found) THEN found ELSE TopicSender(topic)

\* lines 203-304 with case 5 alone for every JSON object
ExtractLlmScanOnly(topic, p) ==
    CASE p.kind = "raw" -> Fields("raw", PyStr(p.raw), TopicSender(topic), PyNone)
      [] p.kind = "dict" ->
           Fields("e", HeuristicText(p.d, p.raw), HeuristicSender(p.d, topic), PyNone)
      [] OTHER -> Fields("error", PyNone, PyNone, PyNone)

\* lines 203-304: the text, sender and addressee read from a dedicated-channel payload
ExtractLlm(topic, p) ==
    LET d == p.d
        message_type == Get(d, "type", PyStr(S_empty))
        payload_is_dict == d.payload.t = "dict"
        sender_or_from == PyOr(GetN(d, "sender"), StrOf(Get(d, "from", PyStr(S_empty))))
        to_str == StrOf(Get(d, "to", PyStr(S_broadcast)))
    IN  CASE p.kind = "raw" ->
               Fields("raw", PyStr(p.raw), TopicSender(topic), PyNone)
          [] p.kind = "nondict" ->
               Fields("error", PyNone, PyNone, PyNone)
          [] p.kind = "dict" /\ message_type = PyStr(S_text) /\ payload_is_dict ->
               Checked(Fields("a", Get(d, "p_text", PyStr(S_empty)), sender_or_from, to_str))
          [] p.kind = "dict" /\ message_type # PyStr(S_text)
                /\ message_type = PyStr(S_sendtext) /\ payload_is_dict ->
               Checked(Fields("b", Get(d, "p_text", PyStr(S_empty)),
                              PyOr(GetN(d, "p_from_id"), StrOf(Get(d, "from", PyStr(S_empty)))),
                              GetN(d, "p_to_id")))
          [] p.kind = "dict" /\ message_type \notin {PyStr(S_text), PyStr(S_sendtext)}
                /\ payload_is_dict /\ Has(d, "p_text") ->
               Checked(Fields("c", d.p_text, sender_or_from, to_str))
          [] p.kind = "dict" /\ ~(payload_is_dict
                                  /\ (message_type \in {PyStr(S_text), PyStr(S_sendtext)}
                                      \/ Has(d, "p_text")))
                /\ Has(d, "text") ->
               Checked(Fields("d", d.text,
                              PyOr(GetN(d, "from_id"), Get(d, "sender", PyStr(S_unknown))),
                              PyOr(GetN(d, "to_id"), Get(d, "to", PyStr(S_broadcast)))))
          [] OTHER ->
               Fields("e", HeuristicText(d, p.raw), HeuristicSender(d, topic), PyNone)

Classified(out, shape, msg) == [out |-> out, shape |-> shape, msg |-> msg]

\* lines 306-314: empty text and the echo of the startup banner are dropped
PassesLlmFilters(f) == Truthy(f.text) /\ ~StartsWith(f.text.s, StartupEchoMarker)

\* lines 195-335 with the Message put on the queue of the regular topic
ClassifyLlmQueued(topic, p) ==
    LET f == ExtractLlm(topic, p)
    IN  IF f.shape # "error" /\ PassesLlmFilters(f)
        THEN Classified("queue", f.shape,
                        Message(f.text, f.from_id, PyOr(f.to_id, PyStr(S_broadcast)),
                                TRUE, TRUE))
        ELSE Classified("drop", f.shape, NoMessage)

\* lines 195-335: a dedicated-channel payload becomes a Message handed to
\* _process_message, or is dropped
ClassifyLlm(topic, p) ==
    LET f == ExtractLlm(topic, p)
    IN  CASE f.shape = "error" -> Classified("drop", f.shape, NoMessage)
          [] f.shape = "a" ->
               IF Truthy(f.text)
               THEN Classified("process", f.shape,
                               Message(f.text, f.from_id, f.to_id,
                                       f.to_id # PyStr(S_broadcast), TRUE))
               ELSE Classified("drop", f.shape, NoMessage)
          [] OTHER ->
               IF PassesLlmFilters(f)
               THEN Classified("process", f.shape,
                               Message(f.text, f.from_id, PyOr(f.to_id, PyStr(S_broadcast)),
                                       TRUE, TRUE))
               ELSE Classified("drop", f.shape, NoMessage)

\* lines 339-376 with the text fallback of the dedicated channel: a payload that
\* is not JSON is queued as a text
ClassifyRegularTextFallback(p, my_node_id) ==
    LET d == p.d
        from_node_id == Get(d, "fromId", PyStr(S_unknown))
        to_node_id == Get(d, "toId", PyStr(S_broadcast))
        text == IF p.kind = "raw" THEN PyStr(p.raw) ELSE Get(d, "text", PyStr(S_empty))
        msg == Message(text, from_node_id, to_node_id, to_node_id # PyStr(S_broadcast), FALSE)
    IN  IF p.kind \notin {"dict", "raw"} THEN Classified("drop", "regular", NoMessage)
        ELSE IF from_node_id = my_node_id THEN Classified("drop", "regular", msg)
        ELSE Classified("queue", "regular", msg)

\* lines 339-376: a payload on the regular receive topic becomes a queued Message
ClassifyRegular(p, my_node_id) ==
    LET d == p.d
        from_node_id == Get(d, "fromId", PyStr(S_unknown))
        to_node_id == Get(d, "toId", PyStr(S_broadcast))
        text == Get(d, "text", PyStr(S_empty))
        msg == Message(text, from_node_id, to_node_id, to_node_id # PyStr(S_broadcast), FALSE)
    IN  IF p.kind # "dict" THEN Classified("drop", "regular", NoMessage)
        ELSE IF from_node_id = my_node_id THEN Classified("drop", "regular", msg)
        ELSE Classified("queue", "regular", msg)

\* lines 379-407: the self-identity a node-info payload leaves recorded
NodeInfoIdentity(p, my_node_id) ==
    LET d == p.d
        node_id == Get(d, "num", PyStr(S_unknown))
        node_name == IF Has(d, "user") THEN Get(d, "longName", PyStr(S_unknown))
                     ELSE PyStr(S_unknown)
    IN  IF p.kind = "dict" /\ (Has(d, "user") => d.user.t = "dict")
           /\ node_id.t # "dict" /\ node_name = PyStr(S_llm_agent)
        THEN node_id
        ELSE my_node_id

\* lines 173-410: what _on_message does with one broker message
Classify(c, topic, p, my_node_id) ==
    CASE p.kind = "undecodable" -> Classified("drop", "error", NoMessage)
      [] p.kind # "undecodable" /\ IsLlmTopic(c, topic) -> ClassifyLlm(topic, p)
      [] p.kind # "undecodable" /\ ~IsLlmTopic(c, topic)
            /\ StartsWith(topic, rx_topic_prefix) -> ClassifyRegular(p, my_node_id)
      [] p.kind # "undecodable" /\ ~IsLlmTopic(c, topic)
            /\ ~StartsWith(topic, rx_topic_prefix)
            /\ StartsWith(topic, nodeinfo_topic_prefix) ->
           Classified("nodeinfo", "nodeinfo", NoMessage)
      [] OTHER -> Classified("drop", "none", NoMessage)

(***************************************************************************)
(* Bounds of the model                                                     *)
(***************************************************************************)
\* inbound broker messages delivered in one behaviour
MaxEvents == 2
\* broker sessions (mqtt.Client objects) created in one behaviour
MaxSessions == 2
\* nested send_to_channel calls the interpreter allows (its recursion limit)
RecursionLimit == 3
\* calls the application makes on the Bridge in one behaviour
MaxCalls == 2
\* threads inside a Bridge operation at the same time
MaxBusy == 1
\* queue worker threads started in one behaviour
MaxWorkers == 2
\* inbound broker messages delivered in one behaviour of the dispatch model
MaxDeliveries == 3

(***************************************************************************)
(* Program constants                                                       *)
(***************************************************************************)
max_chunk_size == 190
DefaultChannelIndex == 2
BridgeTcpRetries == 4
EnsureRetries == 2
ResponseRetries == 2
\* times are counted in half seconds: retry_delay = 2.0 s, and the 5.0 s that
\* limit the wait for a session to establish
DefaultRetryDelay == 4
MaxWaitTime == 10

(***************************************************************************)
(* State                                                                   *)
(***************************************************************************)
VARIABLES
    cfg,                  \* constructor arguments of MeshtasticHybridClient
    h_connected,          \* MeshtasticHybridClient.connected
    h_message_callback,   \* MeshtasticHybridClient.message_callback is set (the Responder)
    mqtt_connected,       \* MeshtasticMqttClient.connected
    mqtt_message_callback,\* MeshtasticMqttClient.message_callback is the Router handler
    running,              \* MeshtasticMqttClient.running (the queue worker's loop flag)
    workers,              \* the queue worker threads started by start() that have not ended
    my_node_id,           \* MeshtasticMqttClient.my_node_id
    message_queue,        \* MeshtasticMqttClient.message_queue
    client,               \* MeshtasticMqttClient.client: the session last created, 0 if none
    sess,                 \* the broker sessions created: loop running, connected to broker
    tcp_interface,        \* MeshtasticTcpClient.interface
    tcp_connected,        \* MeshtasticTcpClient.connected
    stack,                \* the call stack of every thread
    ret,                  \* what the last call of every thread returned or raised
    obs,                  \* per thread: what the operation in progress has done so far
    wire,                 \* per thread: frames handed to the device by the send in progress
    events,               \* inbound broker messages delivered so far
    calls                 \* Bridge calls made by the application so far

vars ==
    <<cfg, h_connected, h_message_callback, mqtt_connected, mqtt_message_callback,
      running, workers, my_node_id, message_queue, client, sess, tcp_interface, tcp_connected,
      stack, ret, obs, wire, events, calls>>

bridgeVars == <<h_connected, h_message_callback>>
mqttVars ==
    <<mqtt_connected, mqtt_message_callback, running, workers, my_node_id, message_queue,
      client, sess>>
tcpVars == <<tcp_interface, tcp_connected>>

Main == <<"main", 0>>
Worker == <<"worker", 0>>
Workers == {<<"worker", k>> : k \in 0..(MaxWorkers - 1)}
Cb(i) == <<"cb", i>>
Sessions == 1..MaxSessions
Threads == {Main} \cup Workers \cup {Cb(i) : i \in Sessions}

\* return values: a boolean, or an exception raised to the caller
Returned(v) == [raised |-> FALSE, v |-> v]
Raised == [raised |-> TRUE, v |-> FALSE]

\* frames: fn the function, pc the place in it, i a loop counter, max a retry
\* limit, delay a retry delay, msg the Message handled, reply the length of the
\* reply text, to the addressee, name a channel name, idx a channel index
Frame(fn, pc) ==
    [fn |-> fn, pc |-> pc, i |-> 0, max |-> 0, delay |-> 0, msg |-> NoMessage,
     reply |-> 0, to |-> PyNone, name |-> << >>, idx |-> 0]

Top(t) == stack[t][Len(stack[t])]
Idle(t) == stack[t] = << >>
At(t, fn, pc) == ~Idle(t) /\ Top(t).fn = fn /\ Top(t).pc = pc
Pop(s) == SubSeq(s, 1, Len(s) - 1)
SetTop(s, f) == [s EXCEPT ![Len(s)] = f]

\* the frame on top moves to f
Goto(t, f) == stack' = [stack EXCEPT ![t] = SetTop(@, f)]
\* the frame on top moves to f and calls g
Call(t, f, g) == stack' = [stack EXCEPT ![t] = Append(SetTop(@, f), g)]
\* the frame on top returns r to its caller
Return(t, r) ==
    /\ stack' = [stack EXCEPT ![t] = Pop(@)]
    /\ ret' = [ret EXCEPT ![t] = r]

\* a thread may enter a Bridge operation
Busy == Cardinality({t \in Threads : stack[t] # << >>})
MayEnter == Busy < MaxBusy

\* MeshtasticTcpClient.interface: obj a session object is held, attr it has the
\* myInfo attribute, info myInfo can be read, closed close() was called on it,
\* channels the names of localNode.channels (None: a channel without a name)
NoInterface ==
    [obj |-> FALSE, attr |-> FALSE, info |-> FALSE, closed |-> FALSE, channels |-> << >>]

\* what an operation has done so far: msg the Message handled, stage how far the
\* handling got, reply what the Responder did, handler how the Router's handler
\* ended, sends the addressee of every Outbound send made, channel_sends the
\* send_to_channel calls made (channel_ok: one returned True), publishes the
\* fallback publishes made (publish_ok: one succeeded), mqtt_result and
\* tcp_result what the connects of connect() returned, and of the Outbound call
\* in progress: opens the sessions opened, resets the transport resets met,
\* reconnects the connects _ensure_connected made since the call began or since
\* the last transport reset, retries the sendText calls made after a reset,
\* passes the chunk loops started by send_to_channel, result what it returned;
\* of the broker message classified: topic, payload and shape, the branch of
\* _on_message that read it; of a call made on the Outbound Link itself: its
\* arguments max_retries and delay, length (of the text), to and name; of the
\* last attempt of connect: failed where it failed (open: the session did not
\* open, identity: myInfo could not be read), settle the wait for the session
\* to establish, wait the delay slept before the next attempt (0: there is none)
NoObs ==
    [msg |-> NoMessage, stage |-> "none", reply |-> "pending", handler |-> "none",
     sends |-> << >>, channel_sends |-> 0, channel_ok |-> FALSE, publishes |-> 0,
     publish_ok |-> FALSE, mqtt_result |-> "none", tcp_result |-> "none",
     opens |-> 0, resets |-> 0, reconnects |-> 0, retries |-> 0, passes |-> 0,
     result |-> "none", after_raise |-> FALSE,
     topic |-> << >>, payload |-> NoPayload, shape |-> "none",
     max_retries |-> 0, delay |-> 0, length |-> 0, to |-> PyNone, name |-> << >>,
     failed |-> "none", settle |-> 0, wait |-> 0,
     banner |-> << >>, channel_banner |-> << >>, attempts |-> 0,
     errors |-> 0, results |-> << >>, pauses |-> 0, own_reply |-> "none"]

\* thread t starts an operation: what it has done so far is o; what finished
\* operations of the other threads did is forgotten
Begin(t, o) ==
    /\ obs' = [u \in Threads |-> IF u = t THEN o ELSE IF Idle(u) THEN NoObs ELSE obs[u]]
    /\ wire' = [u \in Threads |-> IF u = t \/ Idle(u) THEN << >> ELSE wire[u]]

(***************************************************************************)
(* Outbound Link: MeshtasticTcpClient                                      *)
(***************************************************************************)
\* what opening a device session can do: the constructor raises; the session
\* object lacks the myInfo attribute; it has one that cannot be read yet; or
\* the session answers the identity query
OpenOutcomes == {"raise", "noattr", "noinfo", "ready"}
\* what sendText can do: succeed, raise BrokenPipeError/ConnectionResetError,
\* or raise another exception
SendOutcomes == {"ok", "reset", "error"}

Min(a, b) == IF a <= b THEN a ELSE b

\* range(start, stop, step)
RECURSIVE Range(_, _, _)
Range(start, stop, step) ==
    IF start >= stop THEN << >> ELSE <<start>> \o Range(start + step, stop, step)

\* message[i:j] of a message of length L, as the slice [off, off+len)
Slice(L, i, j) == [off |-> Min(i, L), len |-> Min(j, L) - Min(i, L)]

\* lines 253-263: the chunks of a message of length L
Chunks(L) ==
    IF L <= max_chunk_size
    THEN <<[off |-> 0, len |-> L]>>
    ELSE LET starts == Range(0, L, max_chunk_size)
         IN  [k \in 1..Len(starts) |-> Slice(L, starts[k], starts[k] + max_chunk_size)]

\* a sendText call: the slice of the message sent, the "[i/n] " prefix put before
\* it (i = 0: none), destinationId (None: not given) and channelIndex (-1: not given)
WireFrame(c, i, n, dest, channel) ==
    [off |-> c.off, len |-> c.len, i |-> i, n |-> n, dest |-> dest, channel |-> channel]

\* line 272
IsDirectSend(to_id) ==
    to_id.t # "none" /\ to_id # PyStr(S_broadcast) /\ to_id # PyStr(<<"^", "a", "l", "l">>)

\* lines 266-283 without the prefix of lines 267-269
MessageFrameUnprefixed(L, k, to_id) ==
    WireFrame(Chunks(L)[k], 0, Len(Chunks(L)), IF IsDirectSend(to_id) THEN to_id ELSE PyNone, -1)

\* lines 266-283: the sendText call made for chunk k of a message
MessageFrame(L, k, to_id) ==
    LET chunks == Chunks(L)
    IN  WireFrame(chunks[k], IF Len(chunks) > 1 THEN k ELSE 0, Len(chunks),
                  IF IsDirectSend(to_id) THEN to_id ELSE PyNone, -1)

\* lines 297-300: the sendText call made after a reconnect
RetryFrame(L, to_id) ==
    WireFrame([off |-> 0, len |-> L], 0, 1, IF Truthy(to_id) THEN to_id ELSE PyNone, -1)

\* lines 373-376: the sendText call made for chunk k of a channel message
ChannelFrame(L, k, idx) == WireFrame(Chunks(L)[k], 0, Len(Chunks(L)), PyNone, idx)

\* line 172: _ensure_connected reconnects only without a session object or
\* with one that has no myInfo attribute
NeedsReconnect(iface) == ~iface.obj \/ ~iface.attr

LowerChar(c) ==
    CASE c = "L" -> "l" [] c = "M" -> "m" [] c = "P" -> "p" [] c = "R" -> "r"
      [] c = "E" -> "e" [] c = "S" -> "s" [] OTHER -> c

Lower(s) == [k \in 1..Len(s) |-> LowerChar(s[k])]

Contains(s, p) == \E k \in 0..(Len(s) - Len(p)) : SubSeq(s, k + 1, k + Len(p)) = p

\* lines 349-364 with the two loops in the other order
ResolveChannelPartialFirst(channels, channel_name) ==
    LET named == {k \in 1..Len(channels) : channels[k].t = "str"}
        exact == {k \in named : Lower(channels[k].s) = Lower(channel_name)}
        partial == {k \in named : Contains(Lower(channels[k].s), Lower(channel_name))}
        first(S) == CHOOSE k \in S : \A j \in S : k <= j
    IN  IF partial # {} THEN first(partial) - 1
        ELSE IF exact # {} THEN first(exact) - 1
        ELSE DefaultChannelIndex

\* lines 338-370: the channel index for a channel name; channels holds the
\* name of every channel of the local node, None for one without a name
ResolveChannel(channels, channel_name) ==
    LET named == {k \in 1..Len(channels) : channels[k].t = "str"}
        exact == {k \in named : Lower(channels[k].s) = Lower(channel_name)}
        partial == {k \in named : Contains(Lower(channels[k].s), Lower(channel_name))}
        first(S) == CHOOSE k \in S : \A j \in S : k <= j
    IN  IF exact # {} THEN first(exact) - 1
        ELSE IF partial # {} THEN first(partial) - 1
        ELSE DefaultChannelIndex

\* the channel lists a device session may hold
ChannelLists ==
    { << >>,
      <<PyStr(<<"P", "r", "i", "m", "a", "r", "y">>), PyNone, PyStr(<<"L", "L", "M">>)>>,
      <<PyStr(<<"l", "l", "m", "r", "e", "s", "2">>), PyStr(S_llmres)>> }

\* the per-call counters, cleared when a send is called from outside the link
StartSend(o) ==
    [o EXCEPT !.opens = 0, !.resets = 0, !.reconnects = 0, !.retries = 0,
              !.passes = 0, !.result = "none", !.failed = "none", !.settle = 0,
              !.wait = 0]

\* line 51: connect(max_retries, retry_delay)
TcpConnectCall(max_retries, retry_delay) ==
    [Frame("tcp_connect", "attempt") EXCEPT !.max = max_retries, !.delay = retry_delay]

\* connect(max_retries=...) with the default retry_delay
TcpConnectFrame(max_retries) == TcpConnectCall(max_retries, DefaultRetryDelay)

\* line 73: wait_time = min(2.0 + attempt * 0.5, 5.0)
WaitTime(attempt) == Min(DefaultRetryDelay + attempt, MaxWaitTime)

\* lines 126, 138 with the ceiling of line 73 on the delay
BackoffCapped(retry_delay, attempt) == Min(retry_delay * 2^attempt, MaxWaitTime)

\* lines 126, 138: current_delay = retry_delay * (2 ** attempt)
Backoff(retry_delay, attempt) == retry_delay * 2^attempt

\* lines 117, 135 as "attempt <= max_retries"
MayRetryInclusive(attempt, max_retries) == attempt <= max_retries

\* lines 117, 135: a failed attempt is followed by another one
MayRetry(attempt, max_retries) == attempt < max_retries

\* line 106 moved before the identity query of line 82
DeclaresConnectedOnOpen(outcome) == outcome # "raise"

\* lines 82-106: connected = True is reached when myInfo was read
DeclaresConnected(outcome) == outcome = "ready"

\* where an attempt failed: line 70 raised, or line 82 did
FailedAt(outcome) ==
    CASE outcome = "ready" -> "none"
      [] outcome = "raise" -> "open"
      [] OTHER -> "identity"

\* lines 116-132: the session the link holds after an attempt that opened one
OpenedInterface(outcome, attempt, max_retries, channels) ==
    [obj |-> TRUE, attr |-> outcome # "noattr", info |-> outcome = "ready",
     closed |-> outcome # "ready" /\ attempt < max_retries, channels |-> channels]

\* lines 62-146: one attempt of connect(max_retries)
TcpConnectAttempt(t) ==
    /\ At(t, "tcp_connect", "attempt")
    /\ \E outcome \in OpenOutcomes, channels \in ChannelLists :
         LET f == Top(t)
             again == outcome # "ready" /\ MayRetry(f.i, f.max)
         IN  /\ outcome # "ready" => channels = << >>
             /\ tcp_interface' = IF outcome = "raise" THEN tcp_interface
                                 ELSE OpenedInterface(outcome, f.i, f.max, channels)
             /\ tcp_connected' = (tcp_connected \/ DeclaresConnected(outcome))
             /\ obs' = [obs EXCEPT ![t].opens = @ + 1,
                                   ![t].failed = FailedAt(outcome),
                                   ![t].settle = IF outcome = "raise" THEN 0
                                                 ELSE WaitTime(f.i),
                                   ![t].wait = IF again THEN Backoff(f.delay, f.i) ELSE 0]
             /\ IF outcome = "ready" THEN Return(t, Returned(TRUE))
                ELSE IF again THEN Goto(t, [f EXCEPT !.i = @ + 1]) /\ UNCHANGED ret
                ELSE Return(t, Returned(FALSE))
    /\ UNCHANGED <<cfg, bridgeVars, mqttVars, wire, events, calls>>

\* lines 148-158
TcpDisconnect ==
    /\ tcp_interface' = IF tcp_interface.obj THEN [tcp_interface EXCEPT !.closed = TRUE]
                        ELSE tcp_interface
    /\ tcp_connected' = (tcp_connected /\ ~tcp_interface.obj)

\* lines 160-181: _ensure_connected() called by frame f, which goes on at f.pc
\* with what it returned: connect(max_retries) when a reconnect is needed, else True
Ensure(t, f) ==
    IF NeedsReconnect(tcp_interface)
    THEN /\ Call(t, f, TcpConnectFrame(EnsureRetries))
         /\ obs' = [obs EXCEPT ![t].reconnects = @ + 1]
         /\ UNCHANGED ret
    ELSE /\ Goto(t, f)
         /\ ret' = [ret EXCEPT ![t] = Returned(TRUE)]
         /\ UNCHANGED obs

SendMessageFrame(L, to_id) == [Frame("send_message", "start") EXCEPT !.reply = L, !.to = to_id]

\* lines 248-250
SendMessageEnsure(t) ==
    /\ At(t, "send_message", "start")
    /\ Ensure(t, [Top(t) EXCEPT !.pc = "ensured"])
    /\ UNCHANGED <<cfg, bridgeVars, mqttVars, tcpVars, wire, events, calls>>

SendMessageEnsured(t) ==
    /\ At(t, "send_message", "ensured")
    /\ IF ret[t].v
       THEN Goto(t, [Top(t) EXCEPT !.pc = "chunks", !.i = 1]) /\ UNCHANGED <<ret, obs>>
       ELSE Return(t, Returned(FALSE)) /\ obs' = [obs EXCEPT ![t].result = "false"]
    /\ UNCHANGED <<cfg, bridgeVars, mqttVars, tcpVars, wire, events, calls>>

\* the chunk loop with every exception of sendText handled by lines 290-305,
\* as if line 290 caught Exception
SendMessageChunkAnyErrorReconnects(t) ==
    /\ At(t, "send_message", "chunks")
    /\ \E outcome \in SendOutcomes :
         LET f == Top(t)
         IN  CASE outcome = "ok" ->
                    /\ wire' = [wire EXCEPT ![t] = Append(@, MessageFrame(f.reply, f.i, f.to))]
                    /\ IF f.i = Len(Chunks(f.reply))
                       THEN Return(t, Returned(TRUE))
                            /\ obs' = [obs EXCEPT ![t].result = "true"]
                       ELSE Goto(t, [f EXCEPT !.i = @ + 1]) /\ UNCHANGED <<ret, obs>>
               [] OTHER ->
                    /\ Goto(t, [f EXCEPT !.pc = "reset"])
                    /\ obs' = [obs EXCEPT ![t].resets = @ + (IF outcome = "reset" THEN 1 ELSE 0),
                                          ![t].errors = @ + (IF outcome = "error" THEN 1 ELSE 0),
                                          ![t].reconnects = 0]
                    /\ UNCHANGED <<ret, wire>>
    /\ UNCHANGED <<cfg, bridgeVars, mqttVars, tcpVars, events, calls>>

\* lines 266-289, 306-308: one sendText of the chunk loop
SendMessageChunk(t) ==
    /\ At(t, "send_message", "chunks")
    /\ \E outcome \in SendOutcomes :
         LET f == Top(t)
         IN  CASE outcome = "ok" ->
                    /\ wire' = [wire EXCEPT ![t] = Append(@, MessageFrame(f.reply, f.i, f.to))]
                    /\ IF f.i = Len(Chunks(f.reply))
                       THEN Return(t, Returned(TRUE))
                            /\ obs' = [obs EXCEPT ![t].result = "true"]
                       ELSE Goto(t, [f EXCEPT !.i = @ + 1]) /\ UNCHANGED <<ret, obs>>
               [] outcome = "reset" ->
                    /\ Goto(t, [f EXCEPT !.pc = "reset"])
                    /\ obs' = [obs EXCEPT ![t].resets = @ + 1, ![t].reconnects = 0]
                    /\ UNCHANGED <<ret, wire>>
               [] OTHER ->
                    /\ Return(t, Returned(FALSE))
                    /\ obs' = [obs EXCEPT ![t].result = "false", ![t].errors = @ + 1]
                    /\ UNCHANGED wire
    /\ UNCHANGED <<cfg, bridgeVars, mqttVars, tcpVars, events, calls>>

\* lines 291-294: the handler of a transport reset reconnects
SendMessageReset(t) ==
    /\ At(t, "send_message", "reset")
    /\ Ensure(t, [Top(t) EXCEPT !.pc = "reset_ensured"])
    /\ UNCHANGED <<cfg, bridgeVars, mqttVars, tcpVars, wire, events, calls>>

SendMessageResetEnsured(t) ==
    /\ At(t, "send_message", "reset_ensured")
    /\ IF ret[t].v
       THEN Goto(t, [Top(t) EXCEPT !.pc = "retry"]) /\ UNCHANGED <<ret, obs>>
       ELSE Return(t, Returned(FALSE)) /\ obs' = [obs EXCEPT ![t].result = "false"]
    /\ UNCHANGED <<cfg, bridgeVars, mqttVars, tcpVars, wire, events, calls>>

\* lines 295-304: the one sendText after the reconnect
SendMessageRetry(t) ==
    /\ At(t, "send_message", "retry")
    /\ \E outcome \in SendOutcomes :
         LET f == Top(t)
         IN  /\ wire' = [wire EXCEPT ![t] = IF outcome = "ok"
                                            THEN Append(@, RetryFrame(f.reply, f.to))
                                            ELSE @]
             /\ obs' = [obs EXCEPT ![t].retries = @ + 1,
                                   ![t].result = IF outcome = "ok" THEN "true" ELSE "false"]
             /\ Return(t, Returned(outcome = "ok"))
    /\ UNCHANGED <<cfg, bridgeVars, mqttVars, tcpVars, events, calls>>

SendToChannelFrame(L, channel_name) ==
    [Frame("send_to_channel", "start") EXCEPT !.reply = L, !.name = channel_name]

\* send_to_channel frames on the stack of a thread
Depth(t) == Len(SelectSeq(stack[t], LAMBDA f : f.fn = "send_to_channel"))

\* lines 389, 403: send_to_channel calls itself with the same arguments; past the
\* interpreter's recursion limit the call raises RecursionError instead
Recurse(t, pc) ==
    IF Depth(t) < RecursionLimit
    THEN /\ Call(t, [Top(t) EXCEPT !.pc = pc], SendToChannelFrame(Top(t).reply, Top(t).name))
         /\ UNCHANGED ret
    ELSE /\ Goto(t, [Top(t) EXCEPT !.pc = pc])
         /\ ret' = [ret EXCEPT ![t] = Raised]

\* lines 321-323
SendToChannelEnsure(t) ==
    /\ At(t, "send_to_channel", "start")
    /\ Ensure(t, [Top(t) EXCEPT !.pc = "ensured"])
    /\ UNCHANGED <<cfg, bridgeVars, mqttVars, tcpVars, wire, events, calls>>

\* lines 324-370: the channel index from the channel list of the session; a
\* transmission pass starts
SendToChannelEnsured(t) ==
    /\ At(t, "send_to_channel", "ensured")
    /\ IF ret[t].v
       THEN /\ Goto(t, [Top(t) EXCEPT !.pc = "chunks", !.i = 1,
                                      !.idx = ResolveChannel(tcp_interface.channels,
                                                             Top(t).name)])
            /\ obs' = [obs EXCEPT ![t].passes = @ + 1]
            /\ UNCHANGED ret
       ELSE Return(t, Returned(FALSE)) /\ UNCHANGED obs
    /\ UNCHANGED <<cfg, bridgeVars, mqttVars, tcpVars, wire, events, calls>>

\* lines 373-397: one sendText of the chunk loop
SendToChannelChunk(t) ==
    /\ At(t, "send_to_channel", "chunks")
    /\ \E outcome \in SendOutcomes :
         LET f == Top(t)
         IN  CASE outcome = "ok" ->
                    /\ wire' = [wire EXCEPT ![t] = Append(@, ChannelFrame(f.reply, f.i, f.idx))]
                    /\ IF f.i = Len(Chunks(f.reply))
                       THEN Return(t, Returned(TRUE))
                       ELSE Goto(t, [f EXCEPT !.i = @ + 1]) /\ UNCHANGED ret
                    /\ UNCHANGED obs
               [] outcome = "reset" ->
                    /\ Goto(t, [f EXCEPT !.pc = "inner"])
                    /\ obs' = [obs EXCEPT ![t].resets = @ + 1, ![t].reconnects = 0]
                    /\ UNCHANGED <<ret, wire>>
               [] OTHER ->
                    /\ Return(t, Returned(FALSE))
                    /\ UNCHANGED <<obs, wire>>
    /\ UNCHANGED <<cfg, bridgeVars, mqttVars, tcpVars, events, calls>>

\* lines 384-386: the handler of a transport reset in the chunk loop reconnects
SendToChannelInner(t) ==
    /\ At(t, "send_to_channel", "inner")
    /\ Ensure(t, [Top(t) EXCEPT !.pc = "inner_ensured"])
    /\ UNCHANGED <<cfg, bridgeVars, mqttVars, tcpVars, wire, events, calls>>

\* lines 387-391: reconnected, it sends the whole message again
SendToChannelInnerEnsured(t) ==
    /\ At(t, "send_to_channel", "inner_ensured")
    /\ IF ret[t].v
       THEN Recurse(t, "inner_called")
       ELSE Return(t, Returned(FALSE))
    /\ UNCHANGED <<cfg, bridgeVars, mqttVars, tcpVars, obs, wire, events, calls>>

\* line 389: what the call returned is returned; what it raised goes to the
\* handler of the whole body (lines 399-401)
SendToChannelInnerCalled(t) ==
    /\ At(t, "send_to_channel", "inner_called")
    /\ IF ret[t].raised
       THEN Goto(t, [Top(t) EXCEPT !.pc = "outer"]) /\ UNCHANGED ret
       ELSE Return(t, ret[t])
    /\ UNCHANGED <<cfg, bridgeVars, mqttVars, tcpVars, obs, wire, events, calls>>

\* lines 399-401: the handler of the whole body reconnects
SendToChannelOuter(t) ==
    /\ At(t, "send_to_channel", "outer")
    /\ Ensure(t, [Top(t) EXCEPT !.pc = "outer_ensured"])
    /\ UNCHANGED <<cfg, bridgeVars, mqttVars, tcpVars, wire, events, calls>>

\* lines 402-404
SendToChannelOuterEnsured(t) ==
    /\ At(t, "send_to_channel", "outer_ensured")
    /\ IF ret[t].v
       THEN Recurse(t, "outer_called")
       ELSE Return(t, Returned(FALSE))
    /\ UNCHANGED <<cfg, bridgeVars, mqttVars, tcpVars, obs, wire, events, calls>>

\* line 403: what the call made in the handler returns or raises leaves the function
SendToChannelOuterCalled(t) ==
    /\ At(t, "send_to_channel", "outer_called")
    /\ Return(t, ret[t])
    /\ UNCHANGED <<cfg, bridgeVars, mqttVars, tcpVars, obs, wire, events, calls>>

(***************************************************************************)
(* Inbound Link: MeshtasticMqttClient                                      *)
(***************************************************************************)
\* a broker session (an mqtt.Client): loop its loop thread is running, up it is
\* connected to the broker, subs the topic filters it is subscribed to, dropped
\* the broker connection was lost at least once
NoSession == [loop |-> FALSE, up |-> FALSE, subs |-> {}, dropped |-> FALSE]

\* lines 136-137 alone: the subscriptions without those of the dedicated channel
SubscriptionsRegularOnly(c) == {rx_topic_prefix, nodeinfo_topic_prefix}

\* lines 136-148: the topic filters _on_connect subscribes to
Subscriptions(c) ==
    {rx_topic_prefix, nodeinfo_topic_prefix}
    \cup (IF c.use_llm_channel /\ Truthy(c.llm_channel)
          THEN LET channel_base ==
                       Join(Pop(Split(c.llm_channel.s, "/")), <<"/">>)
               IN  {c.llm_channel.s, channel_base \o <<"/", "#">>}
          ELSE {})

\* lines 81-101: a new mqtt.Client; its connect raises, or its loop is started
MqttConnectOpen(t) ==
    /\ At(t, "mqtt_connect", "open")
    /\ client < MaxSessions
    /\ client' = client + 1
    /\ \E opened \in BOOLEAN :
         /\ sess' = [sess EXCEPT ![client + 1] = [NoSession EXCEPT !.loop = opened]]
         /\ IF opened THEN Goto(t, [Top(t) EXCEPT !.pc = "wait"]) /\ UNCHANGED ret
            ELSE Return(t, Returned(FALSE))
    /\ UNCHANGED <<cfg, bridgeVars, mqtt_connected, mqtt_message_callback, running, workers,
                   my_node_id, message_queue, tcpVars, obs, wire, events, calls>>

\* lines 103-108: the wait for the connected flag ends, by the flag or by the time
MqttConnectWait(t) ==
    /\ At(t, "mqtt_connect", "wait")
    /\ Return(t, Returned(mqtt_connected))
    /\ UNCHANGED <<cfg, bridgeVars, mqttVars, tcpVars, obs, wire, events, calls>>

\* lines 114-125
MqttDisconnect ==
    /\ mqtt_connected' = FALSE
    /\ sess' = IF mqtt_connected THEN [sess EXCEPT ![client] = NoSession] ELSE sess

\* lines 127-161: the broker accepted (rc = 0) or refused the session
OnConnect(i) ==
    /\ Idle(Cb(i))
    /\ sess[i].loop /\ ~sess[i].up
    /\ \E accepted \in BOOLEAN :
         /\ sess' = [sess EXCEPT ![i].up = accepted,
                                  ![i].subs = IF accepted THEN Subscriptions(cfg) ELSE {}]
         /\ mqtt_connected' = (mqtt_connected \/ accepted)
    /\ UNCHANGED <<cfg, bridgeVars, mqtt_message_callback, running, workers, my_node_id,
                   message_queue, client, tcpVars, stack, ret, obs, wire, events, calls>>

\* lines 163-171: the transport dropped; the session's loop will connect again
OnDisconnect(i) ==
    /\ Idle(Cb(i))
    /\ sess[i].loop /\ sess[i].up
    /\ sess' = [sess EXCEPT ![i].up = FALSE, ![i].subs = {}, ![i].dropped = TRUE]
    /\ mqtt_connected' = FALSE
    /\ UNCHANGED <<cfg, bridgeVars, mqtt_message_callback, running, workers, my_node_id,
                   message_queue, client, tcpVars, stack, ret, obs, wire, events, calls>>

\* _process_message without the test of the sender (lines 432-435)
ReachesResponderAnySender(msg, node_id, mqtt_callback, h_callback) ==
    /\ Sliceable(msg.text)
    /\ Truthy(msg.text)
    /\ mqtt_callback
    /\ h_callback

\* lines 418-446 and hybrid lines 160-176: the Message passes the filters of
\* _process_message, whose callback is the Router's handler, which has a Responder
ReachesResponder(msg, node_id, mqtt_callback, h_callback) ==
    /\ Sliceable(msg.text)
    /\ Truthy(msg.text)
    /\ msg.from_id # node_id
    /\ msg.from_id # PyStr(S_llm_agent)
    /\ mqtt_callback
    /\ h_callback

HandleFrame(msg) == [Frame("handle", "responder") EXCEPT !.msg = msg]

\* what is known of a broker message when it was classified
Delivered(topic, payload, shape) ==
    [NoObs EXCEPT !.topic = topic, !.payload = payload, !.shape = shape]

\* _process_message(msg) on thread t: the Responder is invoked, or msg is
\* dropped; o is what is known of the operation so far
Process(t, msg, o) ==
    IF ReachesResponder(msg, my_node_id, mqtt_message_callback, h_message_callback)
    THEN /\ stack' = [stack EXCEPT ![t] = Append(@, HandleFrame(msg))]
         /\ Begin(t, [o EXCEPT !.msg = msg, !.stage = "responder",
                               !.after_raise = (obs[t].reply = "raise")])
    ELSE /\ Begin(t, [o EXCEPT !.msg = msg, !.stage = "dropped"])
         /\ UNCHANGED stack

\* lines 173-410: _on_message for one broker message, on the session's loop thread
Dispatch(i, topic, payload) ==
    /\ Idle(Cb(i))
    /\ sess[i].loop /\ sess[i].up
    /\ events' = events + 1
    /\ LET c == Classify(cfg, topic, payload, my_node_id)
       IN  CASE c.out = "process" ->
                  /\ Process(Cb(i), c.msg, Delivered(topic, payload, c.shape))
                  /\ UNCHANGED <<my_node_id, message_queue>>
             [] c.out = "queue" ->
                  /\ message_queue' = Append(message_queue, c.msg)
                  /\ Begin(Cb(i), [Delivered(topic, payload, c.shape) EXCEPT
                                       !.msg = c.msg, !.stage = "queued"])
                  /\ UNCHANGED <<my_node_id, stack>>
             [] c.out = "nodeinfo" ->
                  /\ my_node_id' = NodeInfoIdentity(payload, my_node_id)
                  /\ Begin(Cb(i), [Delivered(topic, payload, c.shape) EXCEPT
                                       !.stage = "nodeinfo"])
                  /\ UNCHANGED <<message_queue, stack>>
             [] OTHER ->
                  /\ Begin(Cb(i), [Delivered(topic, payload, c.shape) EXCEPT
                                       !.msg = c.msg, !.stage = "dropped"])
                  /\ UNCHANGED <<my_node_id, message_queue, stack>>
    /\ UNCHANGED <<cfg, bridgeVars, mqtt_connected, mqtt_message_callback, running, workers,
                   client, sess, tcpVars, ret, calls>>

\* one broker message at a time is in the Bridge
OnMessage(i, topic, payload) ==
    /\ MayEnter
    /\ events < MaxEvents
    /\ Dispatch(i, topic, payload)

\* queue.Queue.get() with the newest Message first
DequeueNewest(q) == [msg |-> q[Len(q)], rest |-> SubSeq(q, 1, Len(q) - 1)]

\* line 627: queue.Queue.get() takes the oldest Message
Dequeue(q) == [msg |-> Head(q), rest |-> Tail(q)]

\* lines 623-634 run by a thread that start() did not start
TakeUnstarted(w) ==
    /\ running
    /\ Idle(w)
    /\ message_queue # << >>
    /\ message_queue' = Dequeue(message_queue).rest
    /\ Process(w, Dequeue(message_queue).msg, NoObs)
    /\ UNCHANGED <<cfg, bridgeVars, mqtt_connected, mqtt_message_callback, running, workers,
                   my_node_id, client, sess, tcpVars, ret, events, calls>>

\* lines 623-634: one turn of the loop of _process_queue on worker thread w
Take(w) ==
    /\ w \in workers
    /\ running
    /\ Idle(w)
    /\ message_queue # << >>
    /\ message_queue' = Dequeue(message_queue).rest
    /\ Process(w, Dequeue(message_queue).msg, NoObs)
    /\ UNCHANGED <<cfg, bridgeVars, mqtt_connected, mqtt_message_callback, running, workers,
                   my_node_id, client, sess, tcpVars, ret, events, calls>>

\* line 623: the loop of worker thread w ends once the flag is cleared
WorkerExit(w) ==
    /\ w \in workers
    /\ ~running
    /\ Idle(w)
    /\ workers' = workers \ {w}
    /\ UNCHANGED <<cfg, bridgeVars, mqtt_connected, mqtt_message_callback, running,
                   my_node_id, message_queue, client, sess, tcpVars, stack, ret, obs,
                   wire, events, calls>>

\* the queue worker of a Bridge that handles one message at a time
WorkerTake ==
    /\ MayEnter
    /\ Take(Worker)

PublishFrame == Frame("publish", "check")

\* what client.publish can do: succeed, return an error code, or raise
PublishOutcomes == {"ok", "rc", "raise"}

\* lines 675-700 with a second client.publish after one that did not succeed
PublishNowRetrying(t) ==
    \E outcome \in PublishOutcomes, second \in PublishOutcomes :
      LET attempted == Truthy(cfg.llm_response_channel)
          ok == attempted /\ (outcome = "ok" \/ second = "ok")
      IN  /\ Return(t, Returned(ok))
          /\ obs' = [obs EXCEPT ![t].publish_ok = ok,
                                ![t].attempts = @ + (IF ~attempted THEN 0
                                                     ELSE IF outcome = "ok" THEN 1 ELSE 2)]

\* lines 675-700: without a response topic nothing is published (lines 675-677);
\* with one, client.publish is called once (line 688) and its result code, or
\* the exception caught at line 698, decides the boolean returned
PublishNow(t) ==
    \E outcome \in PublishOutcomes :
      LET attempted == Truthy(cfg.llm_response_channel)
          ok == attempted /\ outcome = "ok"
      IN  /\ Return(t, Returned(ok))
          /\ obs' = [obs EXCEPT ![t].publish_ok = ok,
                                ![t].attempts = @ + (IF attempted THEN 1 ELSE 0)]

\* lines 667-673: publish_to_llm_response_channel connects again when the
\* session is not connected to the broker
PublishCheck(t) ==
    /\ At(t, "publish", "check")
    /\ IF client = 0 \/ ~sess[IF client = 0 THEN 1 ELSE client].up
       THEN Call(t, [Top(t) EXCEPT !.pc = "reconnected"], Frame("mqtt_connect", "open"))
            /\ UNCHANGED <<ret, obs>>
       ELSE PublishNow(t)
    /\ UNCHANGED <<cfg, bridgeVars, mqttVars, tcpVars, wire, events, calls>>

\* lines 671-673: after connect() the new session is asked again
PublishReconnected(t) ==
    /\ At(t, "publish", "reconnected")
    /\ IF client = 0 \/ ~sess[IF client = 0 THEN 1 ELSE client].up
       THEN Return(t, Returned(FALSE)) /\ UNCHANGED obs
       ELSE PublishNow(t)
    /\ UNCHANGED <<cfg, bridgeVars, mqttVars, tcpVars, wire, events, calls>>

(***************************************************************************)
(* Router / Bridge: MeshtasticHybridClient                                 *)
(***************************************************************************)
\* what the Responder can do with a Message: return None, return "", raise,
\* or return a text (of length 5, of length 191)
ReplyOutcomes == {"none", "empty", "raise", "short", "long"}
ReplyLength(outcome) ==
    CASE outcome = "long" -> max_chunk_size + 1
      [] outcome = "short" -> 5
      [] OTHER -> 0

\* line 180 as "if response is None"
NoReplyNoneOnly(outcome) == outcome = "none"

\* line 180: "if not response" takes None and "" alike
NoReply(outcome) == outcome \in {"none", "empty"}

\* a handler without the try of lines 165-193
HandlerLetsThrough == FALSE

\* lines 165-193: _handle_mqtt_message catches what the Responder raises
HandlerCatches == TRUE

\* lines 222-223 alone: the reply is always a broadcast
ReplyTargetBroadcast(private_mode, msg) == PyNone

\* line 218 without the test of private_mode
ReplyTargetDirectOnly(private_mode, msg) ==
    IF msg.is_direct THEN msg.from_id ELSE PyNone

\* lines 218-223: the addressee of the Outbound send, None for a broadcast
ReplyTarget(private_mode, msg) ==
    IF private_mode \/ msg.is_direct THEN msg.from_id ELSE PyNone

\* a Router without lines 233-275: no reply on the channel for any Message
ChannelReplyNever(use_llm_channel, msg) == FALSE

\* lines 234, 274 without the test of the origin
ChannelReplyAnyOrigin(use_llm_channel, msg) == use_llm_channel

\* lines 234, 274: only a dedicated-channel Message is answered on the channel
ChannelReply(use_llm_channel, msg) == msg.is_llm_channel /\ use_llm_channel

\* lines 236-244: the channel name is the last non-empty segment of the response topic
ChannelName(llm_response_channel) ==
    LET non_empty_parts == NonEmptyParts(Split(llm_response_channel, "/"))
    IN  IF non_empty_parts # << >> THEN non_empty_parts[Len(non_empty_parts)]
        ELSE S_llmres

\* a Router without the fallback of lines 257-261
FallsBackNever(channel_success) == FALSE

\* lines 251-261: the reply is published when send_to_channel did not succeed
FallsBack(channel_success) == ~channel_success

\* lines 176-193: the Responder returns or raises
Respond(t, outcome) ==
    /\ At(t, "handle", "responder")
    /\   CASE outcome # "raise" /\ NoReply(outcome) ->
                /\ Return(t, Returned(FALSE))
                /\ obs' = [obs EXCEPT ![t].reply = outcome, ![t].stage = "done",
                                      ![t].handler = "returned"]
           [] outcome = "raise" ->
                /\ Return(t, IF HandlerCatches THEN Returned(FALSE) ELSE Raised)
                /\ obs' = [obs EXCEPT ![t].reply = outcome, ![t].stage = "done",
                                      ![t].handler =
                                          IF HandlerCatches THEN "returned" ELSE "raised"]
           [] OTHER ->
                /\ Goto(t, [Top(t) EXCEPT !.pc = "attempt", !.i = 0,
                                          !.reply = ReplyLength(outcome)])
                /\ obs' = [obs EXCEPT ![t].reply = outcome, ![t].stage = "replying"]
                /\ UNCHANGED ret
    /\ UNCHANGED <<cfg, bridgeVars, mqttVars, tcpVars, wire, events, calls>>

\* lines 214-223: one attempt of the retry loop calls the Outbound send
RouterSend(t) ==
    /\ At(t, "handle", "attempt")
    /\ LET f == Top(t)
           to_id == ReplyTarget(cfg.private_mode, f.msg)
       IN  /\ Call(t, [f EXCEPT !.pc = "sent"], SendMessageFrame(f.reply, to_id))
           /\ obs' = [obs EXCEPT ![t] = [StartSend(@) EXCEPT !.sends = Append(@, to_id)]]
    /\ wire' = [wire EXCEPT ![t] = << >>]
    /\ UNCHANGED <<cfg, bridgeVars, mqttVars, tcpVars, ret, events, calls>>

\* a handler that returns the reply it sent
HandlerReturnReply(reply) == reply

\* lines 187-188: having sent the reply, the handler returns None
HandlerReturn(reply) == "none"

\* mqtt lines 448-491: what _process_message does with what the callback
\* returned: nothing, or its own reply by a publish on the response topic, a
\* direct message or a broadcast
OwnReply(c, msg, returned) ==
    IF returned \in {"none", "empty"} THEN "none"
    ELSE IF msg.is_llm_channel THEN "publish"
    ELSE IF c.private_mode \/ msg.is_direct THEN "direct"
    ELSE "broadcast"

\* the handler returns to _process_message after the reply of o
Left(o) ==
    [o EXCEPT !.stage = "done", !.handler = "returned",
              !.own_reply = OwnReply(cfg, o.msg, HandlerReturn(o.reply))]

\* the handler is left: nothing more is sent for this Message
RouterDone(t) ==
    /\ Return(t, Returned(FALSE))
    /\ obs' = [obs EXCEPT ![t] = Left(@)]

RouterPublish(t, f) ==
    /\ Call(t, [f EXCEPT !.pc = "published"], PublishFrame)
    /\ obs' = [obs EXCEPT ![t].publishes = @ + 1]
    /\ UNCHANGED ret

\* lines 225-264: after the Outbound send, whose result is noted; the next
\* attempt at once (line 228 continues without sleeping), or the channel reply
RouterSent(t) ==
    /\ At(t, "handle", "sent")
    /\ LET f == Top(t)
       IN  IF ~ret[t].v /\ f.i < ResponseRetries
           THEN /\ Goto(t, [f EXCEPT !.pc = "attempt", !.i = @ + 1])
                /\ obs' = [obs EXCEPT ![t].results = Append(@, ret[t].v)]
                /\ UNCHANGED <<ret, wire>>
           ELSE IF ChannelReply(cfg.use_llm_channel, f.msg) /\ Truthy(cfg.llm_response_channel)
           THEN /\ Call(t, [f EXCEPT !.pc = "channel_sent"],
                        SendToChannelFrame(f.reply, ChannelName(cfg.llm_response_channel.s)))
                /\ obs' = [obs EXCEPT ![t] = [StartSend(@) EXCEPT
                                                  !.channel_sends = @ + 1,
                                                  !.results = Append(@, ret[t].v)]]
                /\ wire' = [wire EXCEPT ![t] = << >>]
                /\ UNCHANGED ret
           ELSE /\ Return(t, Returned(FALSE))
                /\ obs' = [obs EXCEPT ![t] = [Left(@) EXCEPT
                                                  !.results = Append(@, ret[t].v)]]
                /\ UNCHANGED wire
    /\ UNCHANGED <<cfg, bridgeVars, mqttVars, tcpVars, events, calls>>

\* lines 249-275: after send_to_channel: done, or the fallback publish, or (it
\* raised) the sleep of line 269 and the next attempt, and after the last
\* attempt the fallback publish
RouterChannelSent(t) ==
    /\ At(t, "handle", "channel_sent")
    /\ LET f == Top(t)
       IN  CASE ret[t].raised /\ f.i < ResponseRetries ->
                  /\ Goto(t, [f EXCEPT !.pc = "attempt", !.i = @ + 1])
                  /\ obs' = [obs EXCEPT ![t].pauses = @ + 1]
                  /\ UNCHANGED ret
             [] ret[t].raised /\ f.i >= ResponseRetries ->
                  IF ChannelReply(cfg.use_llm_channel, f.msg)
                  THEN RouterPublish(t, f)
                  ELSE RouterDone(t)
             [] ~ret[t].raised /\ ~FallsBack(ret[t].v) ->
                  /\ Return(t, Returned(FALSE))
                  /\ obs' = [obs EXCEPT ![t] = [Left(@) EXCEPT !.channel_ok = ret[t].v]]
             [] OTHER -> RouterPublish(t, f)
    /\ UNCHANGED <<cfg, bridgeVars, mqttVars, tcpVars, wire, events, calls>>

\* lines 262-264, 275: the handler returns after the fallback publish
RouterPublished(t) ==
    /\ At(t, "handle", "published")
    /\ RouterDone(t)
    /\ UNCHANGED <<cfg, bridgeVars, mqttVars, tcpVars, wire, events, calls>>

\* hybrid line 327: the text of the startup message as the source file holds it
S_startup_message == <<"U+00F0", "U+0178", "U+201C", "U+00A2", " ", "L", "L", "M", " ", "A", "g", "e", "n", "t", " ", "i", "s", " ", "n", "o", "w", " ", "o", "n", "l", "i", "n", "e", " ", "a", "n", "d", " ", "r", "e", "a", "d", "y", " ", "f", "o", "r", " ", "c", "o", "n", "v", "e", "r", "s", "a", "t", "i", "o", "n", "s", "!">>
\* hybrid line 329
S_private_suffix == <<" ", "(", "P", "r", "i", "v", "a", "t", "e", " ", "m", "o", "d", "e", ":", " ", "o", "n", "l", "y", " ", "r", "e", "s", "p", "o", "n", "d", "i", "n", "g", " ", "t", "o", " ", "d", "i", "r", "e", "c", "t", " ", "m", "e", "s", "s", "a", "g", "e", "s", ")">>
\* hybrid line 331
S_listening_prefix == <<" ", "(", "L", "i", "s", "t", "e", "n", "i", "n", "g", " ", "o", "n", " ", "c", "h", "a", "n", "n", "e", "l", ":", " ">>

\* hybrid lines 327-331: the startup message
StartupMessage(c) ==
    S_startup_message
    \o (IF c.private_mode THEN S_private_suffix ELSE << >>)
    \o (IF c.use_llm_channel
        THEN S_listening_prefix \o StrOf(c.llm_channel).s \o <<")">>
        ELSE << >>)

\* lines 325-329: the length of the startup message
StartupLength(c) ==
    57 + (IF c.private_mode THEN 51 ELSE 0)
       + (IF c.use_llm_channel THEN 25 + Len(StrOf(c.llm_channel).s) ELSE 0)

\* line 114 alone: the flag without the override of lines 117-119
BridgeConnectedBoth(mqtt_ok, tcp_ok) == mqtt_ok /\ tcp_ok

\* lines 114-119: Bridge.connected once both connects were made
BridgeConnected(mqtt_ok, tcp_ok) == (mqtt_ok /\ tcp_ok) \/ (mqtt_ok /\ ~tcp_ok)

\* line 95: connect() starts with the Inbound Link
HConnectFrame == Frame("h_connect", "mqtt_done")

\* lines 96-102: without the Inbound Link connect() fails; with it, the Outbound
\* Link is connected
HConnectMqttDone(t) ==
    /\ At(t, "h_connect", "mqtt_done")
    /\ IF ~ret[t].v
       THEN /\ Return(t, Returned(FALSE))
            /\ obs' = [obs EXCEPT ![t].mqtt_result = "false", ![t].result = "false"]
       ELSE /\ Call(t, [Top(t) EXCEPT !.pc = "tcp_done"], TcpConnectFrame(BridgeTcpRetries))
            /\ obs' = [obs EXCEPT ![t].mqtt_result = "true"]
            /\ UNCHANGED ret
    /\ UNCHANGED <<cfg, bridgeVars, mqttVars, tcpVars, wire, events, calls>>

\* lines 104-130: the connected flag, the Router's handler installed in the
\* Inbound Link, the startup messages
HConnectTcpDone(t) ==
    /\ At(t, "h_connect", "tcp_done")
    /\ h_connected' = BridgeConnected(TRUE, ret[t].v)
    /\ mqtt_message_callback' = TRUE
    /\ IF cfg.send_startup_message
       THEN /\ Call(t, [Top(t) EXCEPT !.pc = "startup_sent"],
                    SendMessageFrame(StartupLength(cfg), PyNone))
            /\ obs' = [obs EXCEPT ![t].tcp_result = IF ret[t].v THEN "true" ELSE "false",
                                  ![t].banner = StartupMessage(cfg)]
            /\ UNCHANGED ret
       ELSE /\ Return(t, Returned(BridgeConnected(TRUE, ret[t].v)))
            /\ obs' = [obs EXCEPT ![t].tcp_result = IF ret[t].v THEN "true" ELSE "false",
                                  ![t].result = IF BridgeConnected(TRUE, ret[t].v)
                                                THEN "true" ELSE "false"]
    /\ UNCHANGED <<cfg, h_message_callback, mqtt_connected, running, workers, my_node_id,
                   message_queue, client, sess, tcpVars, wire, events, calls>>

\* hybrid lines 338-350, mqtt lines 712-762: the text send_to_llm_channel hands
\* to the broker session, in a sendtext payload from "llm_agent" to "broadcast"
\* on the response topic; nothing when the channel or the topic is not set
StartupPublish(c) ==
    IF c.use_llm_channel /\ Truthy(c.llm_response_channel)
    THEN StartupMessage(c)
    ELSE << >>

\* lines 331-351, 130: after the startup send and the publish of the startup
\* message on the dedicated channel, whose result is not looked at, connect()
\* returns the flag
HConnectStartupSent(t) ==
    /\ At(t, "h_connect", "startup_sent")
    /\ Return(t, Returned(h_connected))
    /\ obs' = [obs EXCEPT ![t].result = IF h_connected THEN "true" ELSE "false",
                          ![t].channel_banner = StartupPublish(cfg)]
    /\ UNCHANGED <<cfg, bridgeVars, mqttVars, tcpVars, wire, events, calls>>

(***************************************************************************)
(* The application (main.py) calling the Bridge                            *)
(***************************************************************************)
\* set_message_callback (lines 307-314): the Responder is registered
CallSetResponder ==
    /\ Idle(Main)
    /\ ~h_message_callback
    /\ h_message_callback' = TRUE
    /\ UNCHANGED <<cfg, h_connected, mqttVars, tcpVars, stack, ret, obs, wire, events, calls>>

\* connect()
CallConnect ==
    /\ Idle(Main)
    /\ MayEnter
    /\ calls < MaxCalls
    /\ calls' = calls + 1
    /\ stack' = [stack EXCEPT ![Main] = <<HConnectFrame, Frame("mqtt_connect", "open")>>]
    /\ Begin(Main, [NoObs EXCEPT !.stage = "connect"])
    /\ UNCHANGED <<cfg, bridgeVars, mqttVars, tcpVars, ret, events>>

\* disconnect() (lines 132-139): the Inbound Link is disconnected; loop_stop()
\* waits for the loop thread of the session it stops
CallDisconnect ==
    /\ Idle(Main)
    /\ calls < MaxCalls
    /\ calls' = calls + 1
    /\ MqttDisconnect
    /\ stack' = [stack EXCEPT ![Main] =
                     <<[Frame("h_disconnect", "tcp") EXCEPT
                           !.idx = IF mqtt_connected THEN client ELSE 0]>>]
    /\ Begin(Main, [NoObs EXCEPT !.stage = "disconnect"])
    /\ UNCHANGED <<cfg, bridgeVars, mqtt_message_callback, running, workers, my_node_id,
                   message_queue, client, tcpVars, ret, events>>

\* lines 141-145: the Outbound Link is disconnected, the flag cleared
HDisconnectTcp(t) ==
    /\ At(t, "h_disconnect", "tcp")
    /\ Top(t).idx # 0 => Idle(Cb(Top(t).idx))
    /\ TcpDisconnect
    /\ h_connected' = FALSE
    /\ Return(t, Returned(FALSE))
    /\ obs' = [obs EXCEPT ![t].result = "done"]
    /\ UNCHANGED <<cfg, h_message_callback, mqttVars, wire, events, calls>>

\* the texts the application sends: one chunk, two chunks
SendLengths == {5, max_chunk_size + 1}
SendTargets == {PyNone, PyStr(S_broadcast), PyStr(S_abc)}

\* send_message(text, to_id) (lines 352-363)
CallSendMessage ==
    /\ Idle(Main)
    /\ MayEnter
    /\ calls < MaxCalls
    /\ calls' = calls + 1
    /\ \E L \in SendLengths, to_id \in SendTargets :
         stack' = [stack EXCEPT ![Main] = <<SendMessageFrame(L, to_id)>>]
    /\ Begin(Main, [NoObs EXCEPT !.stage = "send"])
    /\ UNCHANGED <<cfg, bridgeVars, mqttVars, tcpVars, ret, events>>

\* mqtt_client.start() (mqtt lines 586-602): the flag is set and one more
\* queue worker thread is started
MqttStart ==
    /\ Idle(Main)
    /\ mqtt_connected
    /\ workers # Workers
    /\ running' = TRUE
    /\ workers' = workers \cup {CHOOSE w \in Workers \ workers :
                                      \A v \in Workers \ workers : w[2] <= v[2]}
    /\ UNCHANGED <<cfg, bridgeVars, mqtt_connected, mqtt_message_callback, my_node_id,
                   message_queue, client, sess, tcpVars, stack, ret, obs, wire, events, calls>>

\* mqtt_client.connect() (mqtt lines 74-112) called on a link that was connected
\* before, as line 670 does: one more broker session is created
MqttReconnect ==
    /\ Idle(Main)
    /\ calls < MaxCalls
    /\ calls' = calls + 1
    /\ stack' = [stack EXCEPT ![Main] = <<Frame("mqtt_connect", "open")>>]
    /\ Begin(Main, [NoObs EXCEPT !.stage = "mqtt_connect"])
    /\ UNCHANGED <<cfg, bridgeVars, mqttVars, tcpVars, ret, events>>

\* mqtt_client.stop() (mqtt lines 604-617): the flag is cleared, the worker
\* thread joined for at most two seconds, the link disconnected; loop_stop()
\* waits for the loop thread of the session it stops
MqttStop ==
    /\ Idle(Main)
    /\ calls < MaxCalls
    /\ calls' = calls + 1
    /\ running' = FALSE
    /\ MqttDisconnect
    /\ stack' = [stack EXCEPT ![Main] =
                     <<[Frame("mqtt_stop", "loop_stop") EXCEPT
                           !.idx = IF mqtt_connected THEN client ELSE 0]>>]
    /\ Begin(Main, [NoObs EXCEPT !.stage = "stop"])
    /\ UNCHANGED <<cfg, bridgeVars, mqtt_message_callback, workers, my_node_id,
                   message_queue, client, tcpVars, ret, events>>

\* line 121 reached from stop(): loop_stop() returned
MqttStopped(t) ==
    /\ At(t, "mqtt_stop", "loop_stop")
    /\ Top(t).idx # 0 => Idle(Cb(Top(t).idx))
    /\ Return(t, Returned(FALSE))
    /\ obs' = [obs EXCEPT ![t].result = "done"]
    /\ UNCHANGED <<cfg, bridgeVars, mqttVars, tcpVars, wire, events, calls>>

\* publish_to_llm_response_channel(data) (mqtt lines 657-700) called on the
\* Inbound Link
CallPublish ==
    /\ Idle(Main)
    /\ calls < MaxCalls
    /\ calls' = calls + 1
    /\ stack' = [stack EXCEPT ![Main] = <<PublishFrame>>]
    /\ Begin(Main, [NoObs EXCEPT !.stage = "publish"])
    /\ UNCHANGED <<cfg, bridgeVars, mqttVars, tcpVars, ret, events>>

(***************************************************************************)
(* The Outbound Link called on its own                                     *)
(***************************************************************************)
\* the arguments of connect(max_retries, retry_delay)
ConnectRetries == {0, 1, BridgeTcpRetries}
ConnectDelays == {2, DefaultRetryDelay}
\* the texts sent: empty, one chunk, a full chunk, and up to three chunks
LinkLengths ==
    {0, 5, max_chunk_size, max_chunk_size + 1, 2 * max_chunk_size, 2 * max_chunk_size + 1}
ChannelLengths == {5, max_chunk_size + 1}
ChannelNames ==
    {<<"L", "L", "M">>, <<"l", "l", "m">>, S_llmres, <<"r", "e", "s">>, <<"x">>}

\* MeshtasticTcpClient.connect(max_retries, retry_delay) (lines 51-146)
LinkConnect ==
    /\ Idle(Main)
    /\ MayEnter
    /\ calls < MaxCalls
    /\ calls' = calls + 1
    /\ \E max_retries \in ConnectRetries, retry_delay \in ConnectDelays :
         /\ stack' = [stack EXCEPT ![Main] = <<TcpConnectCall(max_retries, retry_delay)>>]
         /\ Begin(Main, [NoObs EXCEPT !.stage = "tcp_connect",
                                      !.max_retries = max_retries, !.delay = retry_delay])
    /\ UNCHANGED <<cfg, bridgeVars, mqttVars, tcpVars, ret, events>>

\* MeshtasticTcpClient.disconnect() (lines 148-158)
LinkDisconnect ==
    /\ Idle(Main)
    /\ MayEnter
    /\ calls < MaxCalls
    /\ calls' = calls + 1
    /\ TcpDisconnect
    /\ Begin(Main, [NoObs EXCEPT !.stage = "tcp_disconnect"])
    /\ UNCHANGED <<cfg, bridgeVars, mqttVars, stack, ret, events>>

\* MeshtasticTcpClient.send_message(message, to_id) (lines 237-308)
LinkSendMessage ==
    /\ Idle(Main)
    /\ MayEnter
    /\ calls < MaxCalls
    /\ calls' = calls + 1
    /\ \E L \in LinkLengths, to_id \in SendTargets :
         /\ stack' = [stack EXCEPT ![Main] = <<SendMessageFrame(L, to_id)>>]
         /\ Begin(Main, [NoObs EXCEPT !.stage = "send_message", !.length = L, !.to = to_id])
    /\ UNCHANGED <<cfg, bridgeVars, mqttVars, tcpVars, ret, events>>

\* MeshtasticTcpClient.send_to_channel(message, channel_name) (lines 310-404)
LinkSendToChannel ==
    /\ Idle(Main)
    /\ MayEnter
    /\ calls < MaxCalls
    /\ calls' = calls + 1
    /\ \E L \in ChannelLengths, channel_name \in ChannelNames :
         /\ stack' = [stack EXCEPT ![Main] = <<SendToChannelFrame(L, channel_name)>>]
         /\ Begin(Main, [NoObs EXCEPT !.stage = "send_to_channel", !.length = L,
                                      !.name = channel_name])
    /\ UNCHANGED <<cfg, bridgeVars, mqttVars, tcpVars, ret, events>>

(***************************************************************************)
(* What the broker delivers                                                *)
(***************************************************************************)
Banner == StartupEchoMarker \o <<"!">>
\* the node number of the bridge's own node
SelfId == PyInt(42)

Obj(d, k, v) == [d EXCEPT ![k] = v]
NestedPayload(type, text) ==
    Obj(Obj(Obj(EmptyData, "type", type), "payload", PyDict), "p_text", text)

\* shape (a): {"type": "text", "payload": {"text": ...}, "from": 42}
ShapeA(text) == DictPayload(Obj(NestedPayload(PyStr(S_text), text), "from", SelfId))
\* shape (b): {"type": "sendtext", "payload": {"text": ..., "from_id": ...}}
ShapeB(text, from_id) ==
    DictPayload(Obj(NestedPayload(PyStr(S_sendtext), text), "p_from_id", from_id))
\* shape (c): {"payload": {"text": ...}, "sender": "!abc"}
ShapeC(text) == DictPayload(Obj(NestedPayload(Absent, text), "sender", PyStr(S_abc)))
\* shape (d): {"text": ..., "from_id": ...}
ShapeD(text, from_id) ==
    DictPayload(Obj(Obj(EmptyData, "text", text), "from_id", from_id))
\* shape (e): {"message": ..., "from": 42}
ShapeE(text) ==
    DictPayload(Obj(Obj(EmptyData, "message", text), "from", SelfId))
\* shapes (d) and (e) at once: {"text": ..., "message": "yo", "from": 42}
ShapeDE(text) ==
    DictPayload(Obj(Obj(Obj(EmptyData, "text", text), "message", PyStr(S_yo)), "from", SelfId))
\* shapes (a), (c), (d) and (e) at once:
\* {"type": "text", "payload": {"text": ...}, "text": "yo", "message": "yo", "sender": "!abc"}
ShapeACDE(text) ==
    DictPayload(Obj(Obj(Obj(NestedPayload(PyStr(S_text), text), "text", PyStr(S_yo)),
                        "message", PyStr(S_yo)), "sender", PyStr(S_abc)))
\* shapes (b) and (d) at once, the nested object without a text:
\* {"type": "sendtext", "payload": {}, "text": ..., "from_id": "!abc"}
ShapeBD(text) ==
    DictPayload(Obj(Obj(NestedPayload(PyStr(S_sendtext), Absent), "text", text),
                    "from_id", PyStr(S_abc)))
\* a packet of the regular receive topic
Packet(text, fromId, toId) ==
    DictPayload(Obj(Obj(Obj(EmptyData, "text", text), "fromId", fromId), "toId", toId))
\* a node-info packet
NodeInfo(num, longName) ==
    DictPayload(Obj(Obj(Obj(EmptyData, "num", num), "user", PyDict), "longName", longName))

Texts == {PyStr(S_hi), PyStr(StartupEchoMarker), PyStr(Banner)}

Payloads ==
    {RawPayload(t.s) : t \in Texts \cup {PyStr(S_empty)}}
    \cup {ShapeDE(PyStr(S_hi)), ShapeACDE(PyStr(S_hi)), ShapeBD(PyStr(S_hi))}
    \cup {ShapeA(t) : t \in Texts \cup {PyStr(S_empty), PyInt(7)}}
    \cup {ShapeB(t, PyStr(S_abc)) : t \in Texts}
    \cup {ShapeB(PyStr(S_hi), PyStr(S_llm_agent))}
    \cup {ShapeC(t) : t \in Texts}
    \cup {ShapeD(t, PyStr(S_abc)) : t \in Texts}
    \cup {ShapeD(PyStr(S_hi), SelfId)}
    \cup {ShapeE(t) : t \in Texts}
    \cup {Packet(PyStr(S_hi), PyStr(S_abc), Absent),
          Packet(PyStr(S_hi), PyStr(S_abc), PyStr(S_llm_agent)),
          Packet(PyStr(S_hi), SelfId, Absent),
          Packet(PyStr(S_empty), PyStr(S_abc), Absent)}
    \cup {NodeInfo(SelfId, PyStr(S_llm_agent)),
          NodeInfo(PyInt(7), PyStr(S_abc))}
    \cup {NonDictPayload, UndecodablePayload}

Topics ==
    {LLM_CHANNEL, T_llm_user, LLM_RESPONSE_CHANNEL, rx_topic_prefix, T_rx_node,
     nodeinfo_topic_prefix, T_other}

\* the constructor arguments of the Bridge
Config(private_mode, send_startup_message, use_llm_channel, llm_response_channel) ==
    [private_mode |-> private_mode, send_startup_message |-> send_startup_message,
     use_llm_channel |-> use_llm_channel, llm_channel |-> PyStr(LLM_CHANNEL),
     llm_response_channel |-> llm_response_channel]

Configs ==
    {Config(FALSE, FALSE, TRUE, PyStr(LLM_RESPONSE_CHANNEL)),
     Config(TRUE, TRUE, TRUE, PyStr(LLM_RESPONSE_CHANNEL)),
     Config(FALSE, FALSE, TRUE, PyNone),
     Config(FALSE, TRUE, FALSE, PyStr(LLM_RESPONSE_CHANNEL)),
     Config(TRUE, FALSE, FALSE, PyNone)}

(***************************************************************************)
(* The state machine                                                       *)
(***************************************************************************)
\* lines 56-83 of the Bridge and the constructors of both links
Init ==
    /\ cfg \in Configs
    /\ h_connected = FALSE
    /\ h_message_callback = FALSE
    /\ mqtt_connected = FALSE
    /\ mqtt_message_callback = FALSE
    /\ running = FALSE
    /\ workers = {}
    /\ my_node_id = PyNone
    /\ message_queue = << >>
    /\ client = 0
    /\ sess = [i \in Sessions |-> NoSession]
    /\ tcp_interface = NoInterface
    /\ tcp_connected = FALSE
    /\ stack = [t \in Threads |-> << >>]
    /\ ret = [t \in Threads |-> Returned(FALSE)]
    /\ obs = [t \in Threads |-> NoObs]
    /\ wire = [t \in Threads |-> << >>]
    /\ events = 0
    /\ calls = 0

\* the whole life of a Bridge: the application's calls and the connection
\* callbacks of the broker sessions
Next ==
    \/ CallSetResponder
    \/ CallConnect
    \/ CallDisconnect
    \/ CallSendMessage
    \/ \E i \in Sessions : OnConnect(i)
    \/ \E i \in Sessions : OnDisconnect(i)
    \/ \E t \in Threads : MqttConnectOpen(t)
    \/ \E t \in Threads : MqttConnectWait(t)
    \/ \E t \in Threads : TcpConnectAttempt(t)
    \/ \E t \in Threads : SendMessageEnsure(t)
    \/ \E t \in Threads : SendMessageEnsured(t)
    \/ \E t \in Threads : SendMessageChunk(t)
    \/ \E t \in Threads : SendMessageReset(t)
    \/ \E t \in Threads : SendMessageResetEnsured(t)
    \/ \E t \in Threads : SendMessageRetry(t)
    \/ \E t \in Threads : HConnectMqttDone(t)
    \/ \E t \in Threads : HConnectTcpDone(t)
    \/ \E t \in Threads : HConnectStartupSent(t)
    \/ \E t \in Threads : HDisconnectTcp(t)

Spec == Init /\ [][Next]_vars

\* the device sessions a connected Bridge can hold: one that answered; none
\* (every open raised); one that never answered the identity query
ConnectedInterfaces ==
    {OpenedInterface("ready", 0, BridgeTcpRetries, <<PyStr(<<"l", "l", "m", "r", "e", "s", "2">>), PyStr(S_llmres)>>),
     NoInterface}

\* the Bridge after connect() returned True (lines 85-130), with or without a
\* Responder and a started queue worker
InitConnected ==
    /\ cfg \in Configs
    /\ h_connected = TRUE
    /\ h_message_callback \in BOOLEAN
    /\ mqtt_connected = TRUE
    /\ mqtt_message_callback = TRUE
    /\ running \in BOOLEAN
    /\ workers = IF running THEN {Worker} ELSE {}
    /\ my_node_id = PyNone
    /\ message_queue = << >>
    /\ client = 1
    /\ sess = [i \in Sessions |->
                  IF i = 1
                  THEN [NoSession EXCEPT !.loop = TRUE, !.up = TRUE, !.subs = Subscriptions(cfg)]
                  ELSE NoSession]
    /\ tcp_interface \in ConnectedInterfaces
    /\ tcp_connected = tcp_interface.info
    /\ stack = [t \in Threads |-> << >>]
    /\ ret = [t \in Threads |-> Returned(FALSE)]
    /\ obs = [t \in Threads |-> NoObs]
    /\ wire = [t \in Threads |-> << >>]
    /\ events = 0
    /\ calls = 0

\* the messages the Router is exercised with: dedicated-channel and regular
\* origin, broadcast and direct
RouterDeliveries ==
    {<<LLM_CHANNEL, ShapeA(PyStr(S_hi))>>,
     <<LLM_CHANNEL, ShapeB(PyStr(S_hi), PyStr(S_abc))>>,
     <<rx_topic_prefix, Packet(PyStr(S_hi), PyStr(S_abc), Absent)>>,
     <<rx_topic_prefix, Packet(PyStr(S_hi), PyStr(S_abc), PyStr(S_llm_agent))>>}

\* the Responder's reply fits one chunk
RouterOutcomes == {"none", "empty", "raise", "short"}

\* a connected Bridge handling messages: the Router and the sends it makes
NextRouter ==
    \/ WorkerTake
    \/ \E i \in Sessions, d \in RouterDeliveries : OnMessage(i, d[1], d[2])
    \/ \E t \in Threads, outcome \in RouterOutcomes : Respond(t, outcome)
    \/ \E t \in Threads : RouterSend(t)
    \/ \E t \in Threads : RouterSent(t)
    \/ \E t \in Threads : RouterChannelSent(t)
    \/ \E t \in Threads : RouterPublished(t)
    \/ \E t \in Threads : TcpConnectAttempt(t)
    \/ \E t \in Threads : SendMessageEnsure(t)
    \/ \E t \in Threads : SendMessageEnsured(t)
    \/ \E t \in Threads : SendMessageChunk(t)
    \/ \E t \in Threads : SendMessageReset(t)
    \/ \E t \in Threads : SendMessageResetEnsured(t)
    \/ \E t \in Threads : SendMessageRetry(t)
    \/ \E t \in Threads : SendToChannelEnsure(t)
    \/ \E t \in Threads : SendToChannelEnsured(t)
    \/ \E t \in Threads : SendToChannelChunk(t)
    \/ \E t \in Threads : SendToChannelInner(t)
    \/ \E t \in Threads : SendToChannelInnerEnsured(t)
    \/ \E t \in Threads : SendToChannelInnerCalled(t)
    \/ \E t \in Threads : SendToChannelOuter(t)
    \/ \E t \in Threads : SendToChannelOuterEnsured(t)
    \/ \E t \in Threads : SendToChannelOuterCalled(t)
    \/ \E t \in Threads : PublishCheck(t)

SpecRouter == InitConnected /\ [][NextRouter]_vars

\* a Responder that never replies: it returns None or raises
QuietOutcomes == {"none", "raise"}

\* a connected Bridge classifying what the broker delivers
NextInbound ==
    \/ WorkerTake
    \/ \E i \in Sessions, topic \in Topics, payload \in Payloads : OnMessage(i, topic, payload)
    \/ \E t \in Threads, outcome \in QuietOutcomes : Respond(t, outcome)

\* the connected Bridge whose Outbound Link holds a session
InitInbound == InitConnected /\ tcp_interface.obj

SpecInbound == InitInbound /\ [][NextInbound]_vars

\* the device sessions the link may hold when it is called: none, or one that
\* answered the identity query
LinkInterfaces ==
    {NoInterface}
    \cup {OpenedInterface("ready", 0, BridgeTcpRetries, channels) : channels \in ChannelLists}

\* a constructed Bridge whose Outbound Link has or has not been connected
InitLink ==
    /\ cfg = Config(FALSE, FALSE, FALSE, PyNone)
    /\ h_connected = FALSE
    /\ h_message_callback = FALSE
    /\ mqtt_connected = FALSE
    /\ mqtt_message_callback = FALSE
    /\ running = FALSE
    /\ workers = {}
    /\ my_node_id = PyNone
    /\ message_queue = << >>
    /\ client = 0
    /\ sess = [i \in Sessions |-> NoSession]
    /\ tcp_interface \in LinkInterfaces
    /\ tcp_connected = tcp_interface.info
    /\ stack = [t \in Threads |-> << >>]
    /\ ret = [t \in Threads |-> Returned(FALSE)]
    /\ obs = [t \in Threads |-> NoObs]
    /\ wire = [t \in Threads |-> << >>]
    /\ events = 0
    /\ calls = 0

\* the steps of the calls in progress on the Outbound Link
LinkStep ==
    \/ \E t \in Threads : TcpConnectAttempt(t)
    \/ \E t \in Threads : SendMessageEnsure(t)
    \/ \E t \in Threads : SendMessageEnsured(t)
    \/ \E t \in Threads : SendMessageChunk(t)
    \/ \E t \in Threads : SendMessageReset(t)
    \/ \E t \in Threads : SendMessageResetEnsured(t)
    \/ \E t \in Threads : SendMessageRetry(t)
    \/ \E t \in Threads : SendToChannelEnsure(t)
    \/ \E t \in Threads : SendToChannelEnsured(t)
    \/ \E t \in Threads : SendToChannelChunk(t)
    \/ \E t \in Threads : SendToChannelInner(t)
    \/ \E t \in Threads : SendToChannelInnerEnsured(t)
    \/ \E t \in Threads : SendToChannelInnerCalled(t)
    \/ \E t \in Threads : SendToChannelOuter(t)
    \/ \E t \in Threads : SendToChannelOuterEnsured(t)
    \/ \E t \in Threads : SendToChannelOuterCalled(t)

\* the Outbound Link called on its own
NextLink ==
    \/ LinkConnect
    \/ LinkDisconnect
    \/ LinkSendMessage
    \/ LinkSendToChannel
    \/ LinkStep

SpecLink == InitLink /\ [][NextLink]_vars

\* connect() and disconnect() of the Outbound Link alone
NextConnect ==
    \/ LinkConnect
    \/ LinkDisconnect
    \/ \E t \in Threads : TcpConnectAttempt(t)

\* a connect in progress goes on: opening a session, reading the identity and
\* sleeping each return or raise
SpecConnectFair ==
    InitLink /\ [][NextConnect]_vars /\ WF_vars(\E t \in Threads : TcpConnectAttempt(t))

\* the messages the dispatch is exercised with: two packets of the regular
\* topic that differ, one message of the dedicated channel
QueueDeliveries ==
    {<<rx_topic_prefix, Packet(PyStr(S_hi), PyStr(S_abc), Absent)>>,
     <<rx_topic_prefix, Packet(PyStr(S_yo), PyStr(S_abc), Absent)>>,
     <<LLM_CHANNEL, ShapeB(PyStr(S_hi), PyStr(S_abc))>>}

\* the Bridge after connect() returned True, its Responder registered, the
\* queue worker not started
InitQueue ==
    /\ InitConnected
    /\ cfg = Config(FALSE, FALSE, TRUE, PyStr(LLM_RESPONSE_CHANNEL))
    /\ h_message_callback
    /\ tcp_interface.obj
    /\ ~running

\* the dispatch of the Inbound Link: the loop threads of the sessions, the queue
\* workers, the application starting, stopping and disconnecting
NextQueue ==
    \/ MqttStart
    \/ MqttStop
    \/ CallDisconnect
    \/ \E t \in Threads : MqttStopped(t)
    \/ \E t \in Threads : HDisconnectTcp(t)
    \/ \E i \in Sessions : OnConnect(i)
    \/ \E i \in Sessions : OnDisconnect(i)
    \/ \E i \in Sessions, d \in QueueDeliveries :
          events < MaxDeliveries /\ Dispatch(i, d[1], d[2])
    \/ \E w \in Workers : Take(w)
    \/ \E w \in Workers : WorkerExit(w)
    \/ \E t \in Threads, outcome \in QuietOutcomes : Respond(t, outcome)

SpecQueue == InitQueue /\ [][NextQueue]_vars

\* one packet of the regular topic, one message of the dedicated channel
SessionDeliveries ==
    {<<rx_topic_prefix, Packet(PyStr(S_hi), PyStr(S_abc), Absent)>>,
     <<LLM_CHANNEL, ShapeB(PyStr(S_hi), PyStr(S_abc))>>}

\* a Responder that returns None
SilentOutcomes == {"none"}

\* the threads that invoke the Responder: the loop threads of the broker
\* sessions, created by connect(), ended by disconnect(), dropped and connected
\* again by the broker, and the queue workers started by start()
NextSessions ==
    \/ MqttStart
    \/ MqttReconnect
    \/ CallDisconnect
    \/ \E t \in Threads : MqttConnectOpen(t)
    \/ \E t \in Threads : MqttConnectWait(t)
    \/ \E t \in Threads : HDisconnectTcp(t)
    \/ \E i \in Sessions : OnConnect(i)
    \/ \E i \in Sessions : OnDisconnect(i)
    \/ \E i \in Sessions, d \in SessionDeliveries :
          events < MaxDeliveries /\ Dispatch(i, d[1], d[2])
    \/ \E w \in Workers : Take(w)
    \/ \E t \in Threads, outcome \in SilentOutcomes : Respond(t, outcome)

SpecSessions == InitQueue /\ [][NextSessions]_vars

\* Scenario 2: {"fromId": "!abc", "toId": "broadcast", "text": "hello"}
ScenarioPacket == Packet(PyStr(S_hello), PyStr(S_abc), PyStr(S_broadcast))

\* the Bridge as connect() leaves it (hybrid lines 85-130): both links
\* connected, the Router's handler installed, no queue worker started
InitScenario ==
    /\ InitConnected
    /\ cfg = Config(FALSE, FALSE, TRUE, PyStr(LLM_RESPONSE_CHANNEL))
    /\ h_message_callback
    /\ ~running

\* the steps of a Message on its way from the queue to the device
ScenarioStep ==
    \/ WorkerTake
    \/ \E t \in Threads, outcome \in RouterOutcomes : Respond(t, outcome)
    \/ \E t \in Threads : RouterSend(t)
    \/ \E t \in Threads : RouterSent(t)
    \/ \E t \in Threads : TcpConnectAttempt(t)
    \/ \E t \in Threads : SendMessageEnsure(t)
    \/ \E t \in Threads : SendMessageEnsured(t)
    \/ \E t \in Threads : SendMessageChunk(t)
    \/ \E t \in Threads : SendMessageReset(t)
    \/ \E t \in Threads : SendMessageResetEnsured(t)
    \/ \E t \in Threads : SendMessageRetry(t)

\* the broker delivers the packet of Scenario 2 on msh/!abc/rx or on msh/+/rx;
\* the application may start the queue worker
NextScenario ==
    \/ MqttStart
    \/ \E i \in Sessions, topic \in {T_rx_node, rx_topic_prefix} :
          OnMessage(i, topic, ScenarioPacket)
    \/ ScenarioStep

\* every thread of the Bridge goes on: a started worker takes what is queued,
\* the Responder and the device calls return or raise.  Nothing obliges the
\* application to call start(): connect() does not, and neither does main.py.
SpecScenarioFair ==
    InitScenario /\ [][NextScenario]_vars /\ WF_vars(ScenarioStep)

\* test_llm_channel.py lines 64-70: the message the channel test publishes on
\* the dedicated channel, {"from": "test_script", "to": "llm", "id": ..., "time":
\* ..., "text": ...}; no code reads the member "time"
S_test_script == <<"t", "e", "s", "t", "_", "s", "c", "r", "i", "p", "t">>
S_llm == <<"l", "l", "m">>
S_test_id == <<"t", "e", "s", "t", "_", "1">>
TestMessage ==
    DictPayload(Obj(Obj(Obj(Obj(EmptyData, "from", PyStr(S_test_script)), "to", PyStr(S_llm)),
                        "id", PyStr(S_test_id)), "text", PyStr(S_hello)))

\* the steps of a Message of the dedicated channel on its way from the
\* Responder to the device and the response topic
ChannelStep ==
    \/ \E t \in Threads, outcome \in RouterOutcomes : Respond(t, outcome)
    \/ \E t \in Threads : RouterSend(t)
    \/ \E t \in Threads : RouterSent(t)
    \/ \E t \in Threads : RouterChannelSent(t)
    \/ \E t \in Threads : RouterPublished(t)
    \/ \E t \in Threads : PublishCheck(t)
    \/ LinkStep

\* the broker delivers the message of the channel test on the dedicated
\* channel, once
NextChannel ==
    \/ \E i \in Sessions : events = 0 /\ OnMessage(i, LLM_CHANNEL, TestMessage)
    \/ ChannelStep

\* the loop thread that took the message goes on: the Responder and the device
\* and broker calls return or raise
SpecChannelFair ==
    InitScenario /\ [][NextChannel]_vars /\ WF_vars(ChannelStep)

\* the Inbound Link never connected, or connected by connect()
InitPublish ==
    \/ Init
    \/ InitConnected /\ h_message_callback /\ tcp_interface.obj /\ ~running

\* publish_to_llm_response_channel called on the Inbound Link while its broker
\* sessions connect, drop and are disconnected
NextPublish ==
    \/ CallPublish
    \/ CallDisconnect
    \/ \E t \in Threads : PublishCheck(t)
    \/ \E t \in Threads : PublishReconnected(t)
    \/ \E t \in Threads : MqttConnectOpen(t)
    \/ \E t \in Threads : MqttConnectWait(t)
    \/ \E t \in Threads : HDisconnectTcp(t)
    \/ \E i \in Sessions : OnConnect(i)
    \/ \E i \in Sessions : OnDisconnect(i)

SpecPublish == InitPublish /\ [][NextPublish]_vars

(***************************************************************************)
(* Properties                                                              *)
(***************************************************************************)
\* the Message of the operation reached the Responder
AtResponder(o) == o.stage \in {"responder", "replying", "done"}
\* the Responder returned a text for it
Replied(o) == o.reply \in {"short", "long"}
\* the Router's handler is through with it
Handled(o) == o.stage = "done"
\* no Outbound send, no send_to_channel, no publish, no frame handed to the device
NothingSent(t) ==
    /\ obs[t].sends = << >>
    /\ obs[t].channel_sends = 0
    /\ obs[t].publishes = 0
    /\ wire[t] = << >>

C2_AsStated ==
    \A t \in Threads :
        (Handled(obs[t]) /\ obs[t].msg.is_llm_channel /\ Replied(obs[t])) =>
            /\ obs[t].channel_sends >= 1
            /\ obs[t].publishes >= 1 <=> ~obs[t].channel_ok

\* C2, amended: the same, provided a response topic is configured; without one
\* the Router neither calls send_to_channel nor publishes.
C2_ChannelThenFallback ==
    \A t \in Threads :
        (Handled(obs[t]) /\ obs[t].msg.is_llm_channel /\ Replied(obs[t])) =>
            IF Truthy(cfg.llm_response_channel)
            THEN /\ obs[t].channel_sends >= 1
                 /\ obs[t].publishes >= 1 <=> ~obs[t].channel_ok
                 /\ obs[t].publishes <= 1
            ELSE obs[t].channel_sends = 0 /\ obs[t].publishes = 0

\* every Outbound attempt failed and the reply was published
C2_Witness ==
    \E t \in Threads :
        /\ Handled(obs[t]) /\ obs[t].msg.is_llm_channel /\ Replied(obs[t])
        /\ Len(obs[t].sends) = ResponseRetries + 1
        /\ obs[t].channel_sends = 1 /\ ~obs[t].channel_ok
        /\ obs[t].publishes = 1

\* C3: for a Message of regular origin the Router never calls send_to_channel
\* and never publishes, whatever the Outbound sends did.
C3_RegularNeverFallsBack ==
    \A t \in Threads :
        (obs[t].msg # NoMessage /\ ~obs[t].msg.is_llm_channel) =>
            /\ obs[t].channel_sends = 0
            /\ obs[t].publishes = 0
            /\ \A k \in 1..Len(wire[t]) : wire[t][k].channel = -1

\* a regular Message was answered and every Outbound send of the reply failed
C3_Witness ==
    \E t \in Threads :
        /\ Handled(obs[t]) /\ obs[t].msg # NoMessage /\ ~obs[t].msg.is_llm_channel
        /\ Replied(obs[t])
        /\ Len(obs[t].sends) = ResponseRetries + 1
        /\ obs[t].result = "false"

C5_ResponderRaises ==
    \A t \in Threads :
        obs[t].reply = "raise" =>
            /\ NothingSent(t)
            /\ obs[t].handler = "returned"
            /\ Handled(obs[t])
            /\ Idle(t)
            /\ ret[t] = Returned(FALSE)

\* a Message is at the Responder on a thread whose last Message made it raise
C5_Witness ==
    \E t \in Threads : obs[t].stage = "responder" /\ obs[t].after_raise

\* the state of both links but for the queue of the Inbound Link
linkVars ==
    <<mqtt_connected, mqtt_message_callback, running, workers, my_node_id, client, sess,
      tcp_interface, tcp_connected>>

\* nothing was sent for a Message the Responder left unanswered, and without a
\* Responder no Message gets into the Router
C6_NothingSent ==
    /\ \A t \in Threads : obs[t].reply \in {"none", "empty"} => (NothingSent(t) /\ Idle(t))
    /\ ~h_message_callback => \A t \in Threads : NothingSent(t) /\ Idle(t)

\* the step in which the Responder returns None or "" changes no link; neither
\* does the step that hands a Message to a Router without Responder, which only
\* takes the Message from the queue if it was queued (the step that receives a
\* regular Message and queues it hands nothing to the Router)
C6_LinksUnchanged ==
    \A t \in Threads :
        /\ (At(t, "handle", "responder") /\ obs'[t].reply \in {"none", "empty"}) =>
               UNCHANGED <<mqttVars, tcpVars>>
        /\ (~h_message_callback /\ obs'[t] # obs[t] /\ obs'[t].msg # NoMessage
                /\ obs'[t].stage # "queued") =>
               /\ UNCHANGED linkVars
               /\ \/ message_queue' = message_queue
                  \/ message_queue # << >> /\ message_queue' = Tail(message_queue)

\* C6: when the Responder returns None or "", or no Responder is registered,
\* the Router makes no Outbound send, no send_to_channel and no publish for the
\* Message, and the state of both links is left as it was.
C6_NoReplyNoEffect == [] C6_NothingSent /\ [][C6_LinksUnchanged]_vars

\* the Responder returned "" for a dedicated-channel Message
C6_Witness ==
    \E t \in Threads :
        Handled(obs[t]) /\ obs[t].reply = "empty" /\ obs[t].msg.is_llm_channel

\* C7 as stated: a dedicated-channel Message whose text starts with the marker
\* of the startup banner never reaches the Responder, whatever payload shape
\* carried it.
C7_AsStated ==
    \A t \in Threads :
        (AtResponder(obs[t]) /\ obs[t].msg.is_llm_channel) =>
            ~StartsWith(obs[t].msg.text.s, StartupEchoMarker)

\* a step hands a Message to the Responder on thread t
Invokes(t) ==
    /\ Len(stack'[t]) = Len(stack[t]) + 1
    /\ stack'[t][Len(stack'[t])].fn = "handle"

\* C8: once a self-identity is recorded, no Message whose from_id equals it is
\* handed to the Responder, of regular or of dedicated-channel origin.
C8_FeedbackSuppressed ==
    [][\A t \in Threads :
           (my_node_id # PyNone /\ Invokes(t)) =>
               stack'[t][Len(stack'[t])].msg.from_id # my_node_id]_vars

\* with the identity recorded, a dedicated-channel Message from it was dropped
C8_Witness ==
    \E t \in Threads :
        /\ my_node_id = SelfId
        /\ obs[t].stage = "dropped"
        /\ obs[t].msg.is_llm_channel
        /\ Truthy(obs[t].msg.text)
        /\ obs[t].msg.from_id = my_node_id
        /\ h_message_callback

\* C9 as stated: an Outbound send that retried after a transport reset made
\* exactly one reconnect between the reset and the retry.
C9_AsStated ==
    \A t \in Threads : obs[t].retries >= 1 => obs[t].reconnects = 1

\* C10 as stated: a call of send_to_channel makes at most two transmission passes.
C10_AsStated ==
    \A t \in Threads : obs[t].passes <= 2

C12_Bounded ==
    \A t \in Threads :
        obs[t].stage = "tcp_connect" =>
            /\ obs[t].opens <= obs[t].max_retries + 1
            /\ ~Idle(t) => (obs[t].opens >= 1 => obs[t].failed # "none")
            /\ Idle(t) =>
                   /\ obs[t].opens >= 1
                   /\ ~ret[t].raised
                   /\ ret[t].v <=> obs[t].failed = "none"
                   /\ ~ret[t].v => obs[t].opens = obs[t].max_retries + 1

C13_VerifiedBeforeConnected ==
    [][\A t \in Threads :
           At(t, "tcp_connect", "attempt") =>
               /\ (tcp_connected' /\ ~tcp_connected) =>
                      /\ tcp_interface'.obj /\ tcp_interface'.info
                      /\ ~tcp_interface'.closed
                      /\ obs'[t].failed = "none"
                      /\ ret'[t] = Returned(TRUE)
               /\ obs'[t].failed = "identity" =>
                      /\ tcp_interface'.obj /\ ~tcp_interface'.info
                      /\ tcp_connected' = tcp_connected
                      /\ Len(stack'[t]) < Len(stack[t]) => ret'[t] = Returned(FALSE)]_vars

\* connect returned False on a link never connected: the session of its last
\* attempt is open, did not answer the identity query, and the flag is not set
C13_Witness ==
    \E t \in Threads :
        /\ obs[t].stage = "tcp_connect" /\ Idle(t)
        /\ obs[t].failed = "identity"
        /\ tcp_interface.obj /\ ~tcp_interface.info /\ ~tcp_interface.closed
        /\ ~tcp_connected
        /\ ret[t] = Returned(FALSE)

\* ceil(L / 190), and 1 for a text that fits one chunk
ChunkCount(L) ==
    IF L <= max_chunk_size THEN 1 ELSE (L + max_chunk_size - 1) \div max_chunk_size

C15_AsStated ==
    \A t \in Threads :
        \A k \in 1..Len(wire[t]) : wire[t][k].n > 1 => wire[t][k].i >= 1

\* the channel index the precedence gives: the first exact match, else the
\* first channel whose name contains the name, else the default
IsChannelIndex(channels, channel_name, idx) ==
    LET exact(k) == channels[k].t = "str" /\ Lower(channels[k].s) = Lower(channel_name)
        partial(k) == channels[k].t = "str"
                      /\ Contains(Lower(channels[k].s), Lower(channel_name))
        K == 1..Len(channels)
    IN  \/ /\ idx + 1 \in K /\ exact(idx + 1)
           /\ \A j \in 1..idx : ~exact(j)
        \/ /\ \A j \in K : ~exact(j)
           /\ idx + 1 \in K /\ partial(idx + 1)
           /\ \A j \in 1..idx : ~partial(j)
        \/ /\ \A j \in K : ~exact(j) /\ ~partial(j)
           /\ idx = DefaultChannelIndex

\* C16: every frame of send_to_channel goes to the index of the first channel
\* whose name equals channel_name without regard to case, else of the first
\* channel whose name contains it, else to index 2; with the channels
\* "Primary" at 0 and "LLM" at 2 the name "LLM" gives index 2.
C16_ChannelPrecedence ==
    \A t \in Threads :
        obs[t].stage = "send_to_channel" =>
            \A k \in 1..Len(wire[t]) :
                /\ IsChannelIndex(tcp_interface.channels, obs[t].name, wire[t][k].channel)
                /\ (obs[t].name = <<"L", "L", "M">>
                    /\ tcp_interface.channels =
                         <<PyStr(<<"P", "r", "i", "m", "a", "r", "y">>), PyNone,
                           PyStr(<<"L", "L", "M">>)>>) => wire[t][k].channel = 2

\* "llmres" went to index 1, its exact match, past "llmres2" at index 0
C16_Witness ==
    \E t \in Threads :
        /\ obs[t].stage = "send_to_channel"
        /\ obs[t].name = S_llmres
        /\ tcp_interface.channels = <<PyStr(<<"l", "l", "m", "r", "e", "s", "2">>), PyStr(S_llmres)>>
        /\ wire[t] # << >>
        /\ wire[t][1].channel = 1

\* the shapes of a dedicated-channel JSON object, as the classification names them
MatchesA(d) == d.type = PyStr(S_text) /\ d.payload.t = "dict"
MatchesB(d) == d.type = PyStr(S_sendtext) /\ d.payload.t = "dict"
MatchesC(d) == d.payload.t = "dict" /\ d.p_text.t # "absent"
MatchesD(d) == d.text.t # "absent"

\* the earliest of the five shapes a JSON object matches; the heuristic scan
\* takes every object
EarliestShape(d) ==
    IF MatchesA(d) THEN "a"
    ELSE IF MatchesB(d) THEN "b"
    ELSE IF MatchesC(d) THEN "c"
    ELSE IF MatchesD(d) THEN "d"
    ELSE "e"

\* a broker message was classified as a JSON object of the dedicated channel
ClassifiedJson(o) == o.payload.kind = "dict" /\ o.shape \in {"a", "b", "c", "d", "e"}

\* C17: a JSON object on the dedicated channel is read by the earliest of the
\* shapes (a) to (e) it matches; one with a top-level text key that the
\* heuristic scan would read too is read by (d).
C17_ShapePriority ==
    \A t \in Threads :
        ClassifiedJson(obs[t]) =>
            /\ IsLlmTopic(cfg, obs[t].topic)
            /\ obs[t].shape = EarliestShape(obs[t].payload.d)
            /\ (obs[t].shape = "d" /\ obs[t].msg # NoMessage) =>
                   /\ obs[t].msg.text = obs[t].payload.d.text
                   /\ obs[t].msg.from_id =
                          PyOr(GetN(obs[t].payload.d, "from_id"),
                               Get(obs[t].payload.d, "sender", PyStr(S_unknown)))

\* {"text": "hi", "message": "yo", "from": 42} was read by shape (d): the sender
\* is "unknown", not the "42" the heuristic scan would have read
C17_Witness ==
    \E t \in Threads :
        /\ obs[t].payload = ShapeDE(PyStr(S_hi))
        /\ obs[t].shape = "d"
        /\ obs[t].msg.text = PyStr(S_hi)
        /\ obs[t].msg.from_id = PyStr(S_unknown)

LastSegment(topic) ==
    LET slashes == {k \in 1..Len(topic) : topic[k] = "/"}
        last == IF slashes = {} THEN 0 ELSE CHOOSE k \in slashes : \A j \in slashes : j <= k
    IN  SubSeq(topic, last + 1, Len(topic))

\* C20: a payload of the dedicated channel that is not JSON becomes a Message
\* whose text is the whole payload and whose from_id is the last segment of
\* the topic when that starts with "!", and "unknown" otherwise; it is dropped
\* only as an empty text or as the echo of the banner.
C20_RawText ==
    \A t \in Threads :
        (obs[t].payload.kind = "raw" /\ IsLlmTopic(cfg, obs[t].topic)) =>
            IF obs[t].payload.raw = << >> \/ StartsWith(obs[t].payload.raw, StartupEchoMarker)
            THEN obs[t].msg = NoMessage /\ obs[t].stage = "dropped"
            ELSE /\ obs[t].msg.text = PyStr(obs[t].payload.raw)
                 /\ obs[t].msg.from_id =
                        (IF LastSegment(obs[t].topic) # << >> /\ LastSegment(obs[t].topic)[1] = "!"
                         THEN PyStr(LastSegment(obs[t].topic))
                         ELSE PyStr(S_unknown))
                 /\ obs[t].msg.is_llm_channel
                 /\ obs[t].msg.is_direct
                 /\ h_message_callback => AtResponder(obs[t])

\* the payload "hi" on the topic msh/US/2/json/llm/!abc is at the Responder as a
\* Message from "!abc"
C20_Witness ==
    \E t \in Threads :
        /\ obs[t].payload = RawPayload(S_hi)
        /\ obs[t].topic = T_llm_user
        /\ obs[t].msg.text = PyStr(S_hi)
        /\ obs[t].msg.from_id = PyStr(S_abc)
        /\ obs[t].stage = "responder"


\* the topics the broker delivers for the subscription msh/+/rx (line 136): three
\* levels, the first "msh", the last "rx"
OnRegularTopic(topic) ==
    LET parts == Split(topic, "/")
    IN  Len(parts) = 3 /\ parts[1] = <<"m", "s", "h">> /\ parts[3] = <<"r", "x">>

\* a step in which the loop thread of session i is handed a broker message
Receives(i) ==
    /\ events' = events + 1
    /\ Idle(Cb(i))
    /\ obs'[Cb(i)].stage # "none"

\* C21: a payload of the regular receive topic that is not JSON is discarded.
\* The step that receives it leaves the queue as it was, invokes no Responder,
\* makes no Message of the payload text, and leaves the session, the connected
\* flag and the loop thread ready for the next broker message.
C21_NonJsonDiscarded ==
    [][\A i \in Sessions :
           (Receives(i) /\ OnRegularTopic(obs'[Cb(i)].topic)
            /\ obs'[Cb(i)].payload.kind = "raw") =>
               /\ message_queue' = message_queue
               /\ stack' = stack
               /\ obs'[Cb(i)].stage = "dropped"
               /\ obs'[Cb(i)].msg = NoMessage
               /\ sess' = sess
               /\ mqtt_connected' = mqtt_connected
               /\ running' = running]_vars

\* the text "hi" arrived on msh/+/rx after a packet was queued: it was dropped,
\* the packet is still queued
C21_Witness ==
    \E i \in Sessions :
        /\ obs[Cb(i)].topic = rx_topic_prefix
        /\ obs[Cb(i)].payload = RawPayload(S_hi)
        /\ obs[Cb(i)].stage = "dropped"
        /\ events = 2
        /\ Len(message_queue) = 1

\* a step in which worker thread w takes a Message from the queue
Takes(w) ==
    /\ Idle(w)
    /\ Len(message_queue') < Len(message_queue)
    /\ obs'[w].stage \in {"responder", "dropped"}

\* the queue is first in, first out: a Message is added at its end, the Message
\* taken is its first and is the one _process_message is given
Fifo ==
    /\ Len(message_queue') > Len(message_queue) =>
           /\ Len(message_queue') = Len(message_queue) + 1
           /\ SubSeq(message_queue', 1, Len(message_queue)) = message_queue
    /\ \A w \in Workers :
           Takes(w) =>
               /\ obs'[w].msg = Head(message_queue)
               /\ message_queue' = Tail(message_queue)

\* the worker threads that are handling a Message
Consuming(stk) == {w \in Workers : stk[w] # << >>}

ScenarioDelivered ==
    \E i \in Sessions :
        obs[Cb(i)].payload = ScenarioPacket /\ OnRegularTopic(obs[Cb(i)].topic)

\* the Responder was invoked on the Message of Scenario 2
ScenarioAtResponder ==
    \E t \in Threads : AtResponder(obs[t]) /\ obs[t].msg.text = PyStr(S_hello)

\* C23 as stated: once connect() has succeeded, the packet of Scenario 2
\* delivered on a topic of the form msh/<node>/rx leads to the Responder being
\* invoked on its Message.
C23_AsStated == ScenarioDelivered ~> ScenarioAtResponder

\* what thread t is doing or did last is about a message of the dedicated channel
DedicatedOrigin(o) == IsLlmTopic(cfg, o.topic) \/ o.msg.is_llm_channel

InResponder == {t \in Threads : At(t, "handle", "responder")}

Subscribed(subs) ==
    /\ <<"m", "s", "h", "/", "+", "/", "r", "x">> \in subs
    /\ <<"m", "s", "h", "/", "+", "/", "n", "o", "d", "e", "i", "n", "f", "o">> \in subs
    /\ cfg.use_llm_channel =>
           /\ LLM_CHANNEL \in subs
           /\ RStrip(LLM_CHANNEL, "/") \o <<"/", "#">> \in subs

DisconnectReturned ==
    /\ Idle(Main)
    /\ obs[Main].stage = "disconnect"
    /\ obs[Main].result = "done"

\* every broker session is closed: its loop thread has ended, so that it
\* neither connects again nor dispatches, and the connected flag is clear
SessionsClosed ==
    /\ ~mqtt_connected
    /\ \A i \in Sessions : ~sess[i].loop /\ ~sess[i].up

\* C27: when disconnect() has returned, the queue worker is stopped, every broker
\* session is closed and the link is not connected.
C27_AsStated ==
    DisconnectReturned => (~running /\ workers = {} /\ SessionsClosed)

\* connect() of the Bridge returned after sending the startup message
StartupSent(t) ==
    /\ Idle(t)
    /\ obs[t].stage = "connect"
    /\ obs[t].banner # << >>

\* what connect() sends at startup: a Bridge configured for it hands the startup
\* message to the Outbound Link and, with the dedicated channel and a response
\* topic, hands the same text to the broker session; otherwise nothing is sent
StartupBannerSent ==
    \A t \in Threads :
        (Idle(t) /\ obs[t].stage = "connect" /\ obs[t].mqtt_result = "true") =>
            /\ cfg.send_startup_message => obs[t].banner = StartupMessage(cfg)
            /\ (cfg.send_startup_message /\ cfg.use_llm_channel
                    /\ Truthy(cfg.llm_response_channel)) =>
                   obs[t].channel_banner = obs[t].banner
            /\ ~cfg.send_startup_message =>
                   obs[t].banner = << >> /\ obs[t].channel_banner = << >>

\* C28: the startup message sent is matched by the marker of the echo filter,
\* so the filter of the dedicated channel drops it when it comes back.
C28_AsStated ==
    \A t \in Threads :
        StartupSent(t) =>
            /\ StartsWith(obs[t].banner, StartupEchoMarker)
            /\ ~PassesLlmFilters([text |-> PyStr(obs[t].banner)])

\* publish_to_llm_response_channel has returned to its caller
PublishReturned(t) == Idle(t) /\ obs[t].stage = "publish"

\* C29: a call of publish_to_llm_response_channel calls client.publish at most
\* once, whatever the first call did, and ends by returning a boolean, never by
\* raising; it returns True exactly when that one publish succeeded.
C29_BestEffort ==
    \A t \in Threads :
        obs[t].stage = "publish" =>
            /\ obs[t].attempts <= 1
            /\ PublishReturned(t) =>
                   /\ ~ret[t].raised
                   /\ ret[t].v \in BOOLEAN
                   /\ ret[t].v = obs[t].publish_ok
                   /\ ret[t].v => obs[t].attempts = 1

\* a publish that failed after its one attempt, on a session that was connected
\* again by the call
C29_Witness ==
    \E t \in Threads :
        /\ PublishReturned(t)
        /\ obs[t].attempts = 1
        /\ ~ret[t].v
        /\ client > 1

\* the Bridge is in private mode and the operation of thread t handles a regular
\* Message that was addressed to broadcast
PrivateBroadcast(t) ==
    /\ cfg.private_mode
    /\ obs[t].msg # NoMessage
    /\ ~obs[t].msg.is_llm_channel
    /\ ~obs[t].msg.is_direct

OtherError(t) == obs'[t].errors = obs[t].errors + 1

\* the step in which send_message meets an error that is not a transport reset
\* returns False to the caller, hands no frame to the device, opens no session
\* and leaves the Outbound Link as it was
C31_ErrorStep ==
    \A t \in Threads :
        OtherError(t) =>
            /\ stack'[t] = Pop(stack[t])
            /\ ret'[t] = Returned(FALSE)
            /\ wire'[t] = wire[t]
            /\ obs'[t].reconnects = obs[t].reconnects
            /\ obs'[t].opens = obs[t].opens
            /\ obs'[t].retries = obs[t].retries
            /\ UNCHANGED tcpVars

\* after such an error the call is over: nothing was retried, no transport
\* reset was handled, and the result is failure
C31_ErrorEnds ==
    \A t \in Threads :
        (obs[t].stage = "send_message" /\ obs[t].errors > 0) =>
            /\ Idle(t)
            /\ obs[t].errors = 1
            /\ obs[t].result = "false"
            /\ ret[t] = Returned(FALSE)
            /\ obs[t].resets = 0
            /\ obs[t].retries = 0

\* C31: when sendText raises an error that is not a transport reset,
\* send_message returns False without reconnecting and without handing
\* anything further to the device.
C31_PlainFailure == [] C31_ErrorEnds /\ [][C31_ErrorStep]_vars

\* a two-chunk send_message whose second sendText raised such an error: the
\* first chunk is on the wire, the call returned False
C31_Witness ==
    \E t \in Threads :
        /\ obs[t].stage = "send_message"
        /\ obs[t].errors = 1
        /\ Idle(t)
        /\ Len(wire[t]) = 1
        /\ obs[t].length > max_chunk_size

\* the Outbound sends the Router made for the reply of thread t's Message are
\* at most one initial attempt and ResponseRetries retries
AtMostThreeSends(t) == Len(obs[t].sends) <= ResponseRetries + 1

\* no attempt was made after one that succeeded
StopsAtSuccess(t) ==
    \A k \in 1..Len(obs[t].results) :
        obs[t].results[k] => Len(obs[t].sends) = k

\* the Router slept between every two consecutive attempts
PausedBetween(t) == obs[t].pauses >= Len(obs[t].sends) - 1

\* C32: per reply the Router makes at most three Outbound send attempts, none
\* after an attempt that succeeded, and sleeps the inter-attempt delay between
\* every two consecutive attempts.
C32_AsStated ==
    \A t \in Threads :
        obs[t].msg # NoMessage =>
            AtMostThreeSends(t) /\ StopsAtSuccess(t) /\ PausedBetween(t)

\* the Responder returned a text for the message of the channel test
TestReplied ==
    \E t \in Threads : obs[t].payload = TestMessage /\ Replied(obs[t])

\* a thread is in send_to_channel with the last non-empty segment of the
\* response topic msh/US/2/json/llmres/ as channel name
InChannelSend(t) ==
    \E k \in 1..Len(stack[t]) :
        stack[t][k].fn = "send_to_channel" /\ stack[t][k].name = S_llmres

\* every send_to_channel in progress has that channel name
ChannelNamed ==
    \A t \in Threads : \A k \in 1..Len(stack[t]) :
        stack[t][k].fn = "send_to_channel" => stack[t][k].name = S_llmres

\* the reply was sent with send_to_channel or published on the response topic
TowardResponseChannel ==
    \E t \in Threads :
        /\ obs[t].payload = TestMessage
        /\ obs[t].channel_sends >= 1 \/ obs[t].publishes >= 1

\* C33: when the Responder returns a text for the message the channel test
\* publishes on the dedicated channel, the Router eventually sends the reply
\* with send_to_channel or publishes it on the response topic, and every
\* send_to_channel is made on the channel named by the last non-empty segment
\* of the response topic.
C33_ReplyTowardChannel == (TestReplied ~> TowardResponseChannel) /\ [] ChannelNamed

\* the message of the channel test was answered on the channel after the
\* Outbound send to its sender failed three times
C33_Witness ==
    \E t \in Threads :
        /\ obs[t].payload = TestMessage
        /\ obs[t].msg.from_id = PyStr(S_unknown)
        /\ Len(obs[t].sends) = ResponseRetries + 1
        /\ InChannelSend(t)

(***************************************************************************)
(* Blank texts                                                             *)
(***************************************************************************)
S_blank == <<" ", " ">>
S_padded == <<" ", "h", "i", "\n">>
Whitespace == {" ", "\t", "\n", "\r"}

\* str.strip(): leading and trailing whitespace removed
RECURSIVE LStripSpace(_)
LStripSpace(s) ==
    IF s # << >> /\ Head(s) \in Whitespace THEN LStripSpace(Tail(s)) ELSE s

RECURSIVE RStripSpace(_)
RStripSpace(s) ==
    IF s # << >> /\ s[Len(s)] \in Whitespace THEN RStripSpace(SubSeq(s, 1, Len(s) - 1)) ELSE s

Strip(s) == LStripSpace(RStripSpace(s))

BlankTexts == {PyStr(S_empty), PyStr(S_blank), PyStr(S_padded)}

\* what the broker delivers with an empty, a blank and a padded text, in the
\* shapes of the dedicated channel and as a packet of the regular topic
BlankPayloads ==
    {ShapeA(t) : t \in BlankTexts}
    \cup {ShapeD(t, PyStr(S_abc)) : t \in BlankTexts}
    \cup {RawPayload(t.s) : t \in BlankTexts}
    \cup {Packet(t, PyStr(S_abc), Absent) : t \in BlankTexts}

\* a connected Bridge classifying messages with blank texts
NextBlank ==
    \/ WorkerTake
    \/ \E i \in Sessions, topic \in {LLM_CHANNEL, rx_topic_prefix, T_rx_node},
            payload \in BlankPayloads :
         OnMessage(i, topic, payload)
    \/ \E t \in Threads, outcome \in QuietOutcomes : Respond(t, outcome)

SpecBlank == InitInbound /\ [][NextBlank]_vars

\* C34: a Message whose text is empty after trimming never reaches the
\* Responder, whether it came from the regular topic or the dedicated channel
C34_AsStated ==
    \A t \in Threads : AtResponder(obs[t]) => Strip(obs[t].msg.text.s) # << >>

\* C34, for the text that is empty before trimming: a Message with an empty
\* text never reaches the Responder
C34_EmptyDropped ==
    \A t \in Threads : AtResponder(obs[t]) => obs[t].msg.text.s # << >>

\* a blank text of the regular topic and one of the dedicated channel at the Responder
C34_BlankRegular ==
    \E t \in Threads : AtResponder(obs[t]) /\ obs[t].msg.text = PyStr(S_blank)
                       /\ ~obs[t].msg.is_llm_channel

C34_BlankDedicated ==
    \E t \in Threads : AtResponder(obs[t]) /\ obs[t].msg.text = PyStr(S_blank)
                       /\ obs[t].msg.is_llm_channel

(***************************************************************************)
(* Start-up: messages delivered while connect() runs                       *)
(***************************************************************************)
\* what the broker delivers on the dedicated channel while the Bridge starts
StartupDeliveries == {TestMessage, ShapeD(PyStr(S_hi), PyStr(S_abc)), ShapeD(PyStr(Banner), PyStr(S_abc))}

\* main.py lines 142-176: a Bridge with the dedicated channel, constructed and
\* not yet connected
InitStartup == Init /\ cfg = Config(FALSE, FALSE, TRUE, PyStr(LLM_RESPONSE_CHANNEL))

\* the application registers the Responder and calls connect() on the main
\* thread; the loop thread of a broker session delivers messages meanwhile
NextStartup ==
    \/ CallSetResponder
    \/ CallConnect
    \/ \E t \in Threads : MqttConnectOpen(t)
    \/ \E t \in Threads : MqttConnectWait(t)
    \/ \E t \in Threads : HConnectMqttDone(t)
    \/ \E t \in Threads : TcpConnectAttempt(t)
    \/ \E t \in Threads : HConnectTcpDone(t)
    \/ \E i \in Sessions : OnConnect(i)
    \/ \E i \in Sessions, payload \in StartupDeliveries :
          events < MaxDeliveries /\ Dispatch(i, LLM_CHANNEL, payload)
    \/ \E t \in Threads, outcome \in QuietOutcomes : Respond(t, outcome)

SpecStartup == InitStartup /\ [][NextStartup]_vars

\* the payload passes the filters of the dedicated channel and of _process_message
PassesFilters(topic, payload) ==
    LET c == Classify(cfg, topic, payload, my_node_id)
    IN  /\ c.out = "process"
        /\ ReachesResponder(c.msg, my_node_id, TRUE, TRUE)

\* this step is the delivery of a filter-passing dedicated-channel message on
\* session i, to a Bridge that has a Responder and a Connected Inbound Link
DeliveredConnected(i) ==
    /\ events' = events + 1
    /\ mqtt_connected /\ sess[i].up
    /\ h_message_callback
    /\ obs'[Cb(i)].topic = LLM_CHANNEL
    /\ PassesFilters(obs'[Cb(i)].topic, obs'[Cb(i)].payload)

\* C35: every dedicated-channel message that passes the filters and is received
\* once the Inbound Link is Connected reaches the Responder registered on the
\* Bridge, also while connect() is still at the Outbound connection
C35_AsStated ==
    [][\A i \in Sessions : DeliveredConnected(i) => obs'[Cb(i)].stage = "responder"]_vars

\* C35, once connect() has installed the Router's handler in the Inbound Link
C35_AfterConnect ==
    [][\A i \in Sessions :
          DeliveredConnected(i) /\ mqtt_message_callback
              => obs'[Cb(i)].stage = "responder"]_vars

\* a filter-passing message dropped while connect() retries the device
C35_LostDuringConnect ==
    \E i \in Sessions :
        /\ obs[Cb(i)].stage = "dropped"
        /\ obs[Cb(i)].msg.text = PyStr(S_hello)
        /\ h_message_callback
        /\ At(Main, "tcp_connect", "attempt")
        /\ Top(Main).i >= 1

(***************************************************************************)
(* The fallback publish coming back from the broker                        *)
(***************************************************************************)
T_llm_bare == <<"m", "s", "h", "/", "U", "S", "/", "2", "/", "j", "s", "o", "n", "/", "l", "l", "m">>
T_llmres_bare == <<"m", "s", "h", "/", "U", "S", "/", "2", "/", "j", "s", "o", "n", "/", "l", "l", "m", "r", "e", "s">>
T_llm_res == <<"m", "s", "h", "/", "U", "S", "/", "2", "/", "j", "s", "o", "n", "/", "l", "l", "m", "/", "r", "e", "s">>
S_reply == <<"o", "k">>
\* a key of interface.nodes: the node id of the device
S_self == <<"!", "s", "e", "l", "f">>
\* hybrid line 288: the tcp client has no attribute my_node_id_num
FallbackFrom == PyInt(1234567890)

\* MeshtasticTcpClient.my_node_id (tcp lines 47, 84-88): None until a device
\* session listed the own node
TcpNodeIds == {PyNone, PyStr(S_self)}

\* hybrid lines 287-296: the JSON object of the fallback publish
ResponseData(response, node_id, to_id) ==
    DictPayload(Obj(Obj(Obj(Obj(NestedPayload(PyStr(S_sendtext), PyStr(response)),
                                "from", FallbackFrom),
                            "p_from_id", node_id),
                        "p_to_id", to_id),
                    "p_is_response", PyTrue))

\* the fallback publishes of all replies
ResponseDatas ==
    {ResponseData(S_reply, n, to) :
        n \in TcpNodeIds, to \in {PyStr(S_broadcast), PyStr(S_unknown), PyStr(S_self)}}

\* the broker's matching of a topic against a subscription filter, level by
\* level; + stands for one level, # for the rest
RECURSIVE LevelsMatch(_, _)
LevelsMatch(fl, tl) ==
    IF fl = << >> THEN tl = << >>
    ELSE IF Head(fl) = <<"#">> THEN TRUE
    ELSE IF tl = << >> THEN FALSE
    ELSE (Head(fl) = <<"+">> \/ Head(fl) = Head(tl)) /\ LevelsMatch(Tail(fl), Tail(tl))

TopicMatches(filter, topic) == LevelsMatch(Split(filter, "/"), Split(topic, "/"))

\* the broker delivers on session i what is published on topic
Delivers(i, topic) == \E filter \in sess[i].subs : TopicMatches(filter, topic)

\* the pairs of dedicated topic and response topic
Pair(llm_channel, llm_response_channel) ==
    [Config(FALSE, FALSE, TRUE, PyStr(llm_response_channel)) EXCEPT
        !.llm_channel = PyStr(llm_channel)]

DefaultPair == Pair(LLM_CHANNEL, LLM_RESPONSE_CHANNEL)

Pairs ==
    {DefaultPair, Pair(T_llm_bare, T_llmres_bare), Pair(LLM_CHANNEL, T_llm_res),
     Pair(LLM_CHANNEL, LLM_CHANNEL)}

\* the Bridge as connect() leaves it, for each pair of topics
InitEcho ==
    /\ cfg \in Pairs
    /\ h_connected = TRUE
    /\ h_message_callback = TRUE
    /\ mqtt_connected = TRUE
    /\ mqtt_message_callback = TRUE
    /\ running = FALSE
    /\ workers = {}
    /\ my_node_id = PyNone
    /\ message_queue = << >>
    /\ client = 1
    /\ sess = [i \in Sessions |->
                  IF i = 1
                  THEN [NoSession EXCEPT !.loop = TRUE, !.up = TRUE, !.subs = Subscriptions(cfg)]
                  ELSE NoSession]
    /\ tcp_interface \in ConnectedInterfaces
    /\ tcp_connected = tcp_interface.info
    /\ stack = [t \in Threads |-> << >>]
    /\ ret = [t \in Threads |-> Returned(FALSE)]
    /\ obs = [t \in Threads |-> NoObs]
    /\ wire = [t \in Threads |-> << >>]
    /\ events = 0
    /\ calls = 0

\* a message of a user on the dedicated topic, the first the Bridge handles
UserDelivery(i) ==
    /\ events = (IF my_node_id = PyNone THEN 0 ELSE 1)
    /\ Delivers(i, cfg.llm_channel.s)
    /\ OnMessage(i, cfg.llm_channel.s, TestMessage)

\* the node-info packet of the bridge's own node
IdentityDelivery(i) ==
    /\ events = 0
    /\ Delivers(i, nodeinfo_topic_prefix)
    /\ OnMessage(i, nodeinfo_topic_prefix, NodeInfo(SelfId, PyStr(S_llm_agent)))

\* the broker delivers back a fallback publish that succeeded (hybrid lines
\* 285-299, mqtt line 689), when a subscription of the session matches the
\* response topic
EchoDelivery(i) ==
    /\ \E t \in Threads : Idle(t) /\ obs[t].publish_ok
    /\ Delivers(i, cfg.llm_response_channel.s)
    /\ events < MaxDeliveries
    /\ MayEnter
    /\ \E d \in ResponseDatas :
          /\ d.d.p_to_id = PyStr(S_broadcast)
          /\ Dispatch(i, cfg.llm_response_channel.s, d)

NextEcho ==
    \/ \E i \in Sessions : UserDelivery(i)
    \/ \E i \in Sessions : IdentityDelivery(i)
    \/ \E i \in Sessions : EchoDelivery(i)
    \/ ChannelStep

SpecEcho == InitEcho /\ [][NextEcho]_vars

\* C36: a reply the bridge published on the response topic through the
\* fallback path is never classified as a dedicated-channel message and handed
\* to the Responder, for every pair of topics, with or without a recorded
\* self-identity
C36_AsStated ==
    \A t \in Threads :
        AtResponder(obs[t]) => ~(obs[t].payload \in ResponseDatas /\ obs[t].msg.is_llm_channel)

\* C36 for the pair of config.py, msh/US/2/json/llm/ and msh/US/2/json/llmres/
C36_DefaultPair ==
    cfg = DefaultPair => C36_AsStated

\* the bridge's own reply at the Responder although the self-identity is recorded
C36_EchoWithIdentity ==
    \E t \in Threads :
        /\ At(t, "handle", "responder")
        /\ obs[t].payload \in ResponseDatas
        /\ my_node_id = SelfId
        /\ cfg = Pair(T_llm_bare, T_llmres_bare)

\* the broker sessions whose callback loop runs
OpenSessions == {i \in Sessions : sess[i].loop}
\* the sessions that dispatch what the broker delivers
DispatchingSessions == {i \in Sessions : sess[i].loop /\ sess[i].up}

\* C37: at every moment the Inbound Link owns at most one open broker session
\* with its callback loop, whatever connect(), transport disconnects,
\* publishes to the response topic and disconnect() came before
C37_AsStated == Cardinality(OpenSessions) <= 1

\* two sessions alive that both dispatch inbound messages, after a publish
\* that found the link not connected
C37_TwoDispatching ==
    /\ Cardinality(DispatchingSessions) = 2
    /\ obs[Main].stage = "publish"

\* destinationId names the addressee the call was given; "broadcast" and no id
\* both mean a broadcast
SameDestination(dest, to_id) ==
    IF IsDirectSend(to_id) THEN dest = to_id ELSE dest \in {PyNone, PyStr(S_broadcast)}

\* a send_message call of the Outbound Link returned True on thread t
SendSucceeded(t) == obs[t].stage = "send_message" /\ Idle(t) /\ obs[t].result = "true"

\* C38: for every Outbound send that returns success, the frames handed to the
\* device session are exactly the chunks 1..n of the text, in order, each once,
\* each of at most 190 units and all to the destination the call was given,
\* also when a transport reset occurred and the retry succeeded
C38_AsStated ==
    \A t \in Threads :
        SendSucceeded(t) =>
            LET L == obs[t].length
                w == wire[t]
                n == Len(w)
            IN  /\ n = ChunkCount(L)
                /\ \A k \in 1..n : w[k].len <= max_chunk_size
                /\ w[1].off = 0
                /\ \A k \in 1..(n - 1) : w[k + 1].off = w[k].off + w[k].len
                /\ w[n].off + w[n].len = L
                /\ \A k \in 1..n : SameDestination(w[k].dest, obs[t].to)

\* C38 without the transport reset: the destination of every frame
C38_DestinationNoReset ==
    \A t \in Threads :
        (SendSucceeded(t) /\ obs[t].resets = 0) =>
            \A k \in 1..Len(wire[t]) : SameDestination(wire[t][k].dest, obs[t].to)

\* a text of 381 units: two chunks sent, a reset at the third, and the whole
\* text sent again in one frame
C38_ResentWhole ==
    \E t \in Threads :
        /\ SendSucceeded(t)
        /\ obs[t].resets = 1
        /\ obs[t].length = 2 * max_chunk_size + 1
        /\ Len(wire[t]) = 3
        /\ wire[t][3].off = 0 /\ wire[t][3].len = 2 * max_chunk_size + 1

\* the last connection attempt made by the call that returned on thread t failed
LastAttemptFailed(t) == Idle(t) /\ obs[t].opens >= 1 /\ obs[t].failed # "none"

\* C39: the connected flag of the Outbound Link is true only while its most
\* recent connection attempt succeeded and disconnect() was not called since;
\* after a reconnect that exhausted its retries the link is not Connected
C39_AsStated ==
    \A t \in Threads : LastAttemptFailed(t) => ~tcp_connected

\* C39 for a link that was not Connected before the attempts
C39_FailedStaysUnset ==
    [][\A t \in Threads :
          (At(t, "tcp_connect", "attempt") /\ ~tcp_connected /\ obs'[t].failed # "none")
              => ~tcp_connected']_vars

\* a send whose reconnect exhausted its retries returned False on a link that
\* still reports Connected
C39_StaleAfterReconnect ==
    \E t \in Threads :
        /\ LastAttemptFailed(t)
        /\ obs[t].stage = "send_message"
        /\ obs[t].reconnects >= 1
        /\ obs[t].opens = EnsureRetries + 1
        /\ obs[t].result = "false"
        /\ tcp_connected

\* C40: composed into the Bridge, the Inbound Link never replies on its own:
\* for every inbound message its own reply paths (direct message, broadcast,
\* publish on the response topic) are not taken, and the only publish on the
\* response topic is the Router's fallback, at most once per reply
C40_RouterOnly ==
    \A t \in Threads :
        /\ obs[t].own_reply = "none"
        /\ obs[t].publishes <= 1
        /\ obs[t].publishes = 1 => (obs[t].msg.is_llm_channel /\ cfg.use_llm_channel)

\* the handler returned to _process_message after a reply to a message of the
\* dedicated channel, published once by the fallback, and after a reply to a
\* packet of the regular topic
C40_Witness ==
    /\ mqtt_message_callback
    /\ \E t \in Threads :
          /\ Idle(t) /\ obs[t].stage = "done" /\ obs[t].reply = "short"
          /\ obs[t].msg.is_llm_channel
          /\ obs[t].publishes = 1 /\ obs[t].publish_ok
          /\ obs[t].sends # << >>

=============================================================================
